---- MODULE Spec2Model ----
(***************************************************************************)
(* The concurrent job scheduler of worker/controller/simple_worker.py:     *)
(* scheduler processes competing for one lock file, one storage queue,     *)
(* each scheduler's poll loop (main thread), its thread pool and the       *)
(* active-job map shared between the poll loop and the pool's workers.     *)
(***************************************************************************)
EXTENDS Naturals, Integers, Sequences, FiniteSets, TLC

(* ----------------------------- bounds ---------------------------------- *)

\* Messages ever put on the queue.
MaxMsgs == 2

\* WORKER_MAX_CONCURRENT of the environment (simple_worker.py:26 reads it,
\* default "3"): the pool size the scheduler is run with here.
MAX_WORKERS == 1

\* Cap on runs[m], the count of subprocess executions per message.
MaxRuns == 2

\* The literal 5 of  messages_per_page=min(available_slots, 5).
BatchCap == 5

Msgs == 1..MaxMsgs

\* Scheduler processes: the one in service and one more launch of the
\* program (a second instance, or the restart after a crash).
Scheds == {1, 2}

(* ----------------------------- payloads -------------------------------- *)

\* A key that the JSON payload does not carry.
NoKey == "<absent>"

\* msg.content, by what the program reads of it: whether json.loads yields
\* an object, job_type, video_id, clip_id, and whether blob_url is present.
VideoPayload(vid, blob) ==
    [json |-> TRUE, job_type |-> "video_analysis", video_id |-> vid,
     clip_id |-> NoKey, blob_url |-> blob]

BadJson ==
    [json |-> FALSE, job_type |-> NoKey, video_id |-> NoKey,
     clip_id |-> NoKey, blob_url |-> FALSE]

\* The producer's messages (video_id and blob_url set, no job_type) for two
\* videos, and a message whose content json.loads rejects.
Payloads == { VideoPayload("a", TRUE), VideoPayload("b", TRUE), BadJson }

\* (variant: clip_id is looked up before video_id)
JobIdOf_clipfirst(p) ==
    IF p.clip_id # NoKey THEN p.clip_id
    ELSE IF p.video_id # NoKey THEN p.video_id
    ELSE "unknown"

\* payload.get("video_id", payload.get("clip_id", "unknown"))
JobIdOf(p) ==
    IF p.video_id # NoKey THEN p.video_id
    ELSE IF p.clip_id # NoKey THEN p.clip_id
    ELSE "unknown"

JobIds == { JobIdOf(p) : p \in Payloads }

\* payload.get("job_type", "video_analysis")
JobTypeOf(p) == IF p.job_type = NoKey THEN "video_analysis" ELSE p.job_type

\* process_video_job / process_clip_job reach subprocess.run only with the
\* payload fields they need; otherwise they return False at once.
ReachesSubprocess(p) ==
    IF JobTypeOf(p) = "generate_clip"
    THEN p.clip_id # NoKey /\ p.video_id # NoKey /\ p.blob_url
    ELSE p.video_id # NoKey /\ p.blob_url

(* ----------------------------- state ----------------------------------- *)

VARIABLES
    queue,              \* queue[m]: "unsent" | "visible" | "invisible" | "deleted"
    content,            \* content[m]: the payload of message m
    lock_holder,        \* scheduler holding the flock on the lock file, 0 if none
    pc,                 \* pc[s]: position of scheduler s's main thread
    shutdown_requested, \* shutdown_requested[s]: the module-level flag
    active_jobs,        \* active_jobs[s][job_id]: the future (named by its message), 0 if absent
    page_size,          \* page_size[s]: messages_per_page of the current iterator
    page,               \* page[s]: messages of the fetched page not yet yielded
    msg,                \* msg[s]: the loop variable of  for msg in messages  (0 outside)
    task,               \* task[m]: state of the future/pool task made from message m
    owner,              \* owner[m]: the scheduler whose pool holds task m (0 if none)
    runs,               \* runs[m]: subprocess executions started for message m
    skipped,            \* skipped[m]: m was once skipped as a duplicate (history)
    fn,                 \* the batch function applied last ("caller" before any call)
    args,               \* its arguments, by parameter name
    ret,                \* its return value
    groups,             \* grouping_pipeline: the global group list (groups.json)
    phase_units         \* grouping_pipeline: the (embedding, group_id) pairs assigned so far

vars == << queue, content, lock_holder, pc, shutdown_requested, active_jobs,
           page_size, page, msg, task, owner, runs, skipped,
           fn, args, ret, groups, phase_units >>

\* The queue worker's state, and the state of the batch functions it never touches.
workerVars == << queue, content, lock_holder, pc, shutdown_requested, active_jobs,
                 page_size, page, msg, task, owner, runs, skipped >>
batchVars == << fn, args, ret, groups, phase_units >>

schedVars == << pc, shutdown_requested, active_jobs, page_size, page, msg >>

\* Positions at which a scheduler process is alive and past acquire_lock.
Polling == { "loop", "poll", "iter", "handle", "delete", "submit", "insert",
             "backoff" }
\* Positions inside  for msg in messages.
InCycle == { "iter", "handle", "delete", "submit", "insert" }
Closing == { "finally", "wait" }
Alive == Polling \cup Closing

\* Futures that are not done(): queued in the pool, or running process_job.
NotDone == { "pending", "running" }
\* A done future, by the result of process_job: True after exit code 0; False
\* after a nonzero exit code, a caught exception or an invalid payload.
Finished == { "true", "false" }

NoJobs == [j \in JobIds |-> 0]

\* The queue worker before main() runs, no message sent yet.
WorkerInit ==
    /\ queue = [m \in Msgs |-> "unsent"]
    /\ content = [m \in Msgs |-> BadJson]
    /\ lock_holder = 0
    /\ pc = [s \in Scheds |-> "start"]
    /\ shutdown_requested = [s \in Scheds |-> FALSE]
    /\ active_jobs = [s \in Scheds |-> NoJobs]
    /\ page_size = [s \in Scheds |-> 0]
    /\ page = [s \in Scheds |-> {}]
    /\ msg = [s \in Scheds |-> 0]
    /\ task = [m \in Msgs |-> "none"]
    /\ owner = [m \in Msgs |-> 0]
    /\ runs = [m \in Msgs |-> 0]
    /\ skipped = [m \in Msgs |-> FALSE]

\* No batch function has been called.
BatchIdle ==
    /\ fn = "caller"
    /\ args = << >>
    /\ ret = << >>
    /\ groups = << >>
    /\ phase_units = {}

Init == WorkerInit /\ BatchIdle

(* ----------------------------- helpers --------------------------------- *)

Min(S) == CHOOSE x \in S : \A y \in S : x <= y

MinOf(a, b) == IF a <= b THEN a ELSE b

\* Future.done()
Done(m) == task[m] \in Finished

\* (variant: get_active_count removes nothing)
CleanUp_keep(aj) == aj

\* The body of get_active_count under the lock: the map without the entries
\* whose future is done.
CleanUp(aj) == [j \in JobIds |-> IF aj[j] # 0 /\ Done(aj[j]) THEN 0 ELSE aj[j]]

\* len(active_jobs)
Count(aj) == Cardinality({ j \in JobIds : aj[j] # 0 })

\* (variant: the test without its "not")
AlreadyInProgress_done(s, j) == active_jobs[s][j] # 0 /\ Done(active_jobs[s][j])

\* job_id in active_jobs and not active_jobs[job_id].done()
AlreadyInProgress(s, j) == active_jobs[s][j] # 0 /\ ~Done(active_jobs[s][j])

\* What one request of the paged iterator returns: up to n visible messages
\* (the oldest first).
Visible == { m \in Msgs : queue[m] = "visible" }
Dequeue(n) == { m \in Visible : Cardinality({ k \in Visible : k < m }) < n }

\* Threads of s's pool that are running process_job.
Running(s) == { m \in Msgs : owner[m] = s /\ task[m] = "running" }

\* (variant: executor.shutdown(wait=False))
PoolIdle_nowait(s) == TRUE

\* executor.shutdown(wait=True) returns once no task of the pool is queued
\* or running.
PoolIdle(s) == \A m \in Msgs : owner[m] = s => task[m] \notin NotDone

\* (variant: no except clause around poll_and_process, the exception runs
\* main's finally)
AfterPollException_uncaught == "finally"

\* Where main's loop goes when poll_and_process raises an Exception.
AfterPollException == "backoff"

(* ----------------------------- environment ----------------------------- *)

\* A producer puts the next message on the queue.
Send(m, p) ==
    /\ queue[m] = "unsent"
    /\ \A k \in Msgs : k < m => queue[k] # "unsent"
    /\ queue' = [queue EXCEPT ![m] = "visible"]
    /\ content' = [content EXCEPT ![m] = p]
    /\ UNCHANGED batchVars
    /\ UNCHANGED << lock_holder, schedVars, task, owner, runs, skipped >>

\* The visibility timeout (4 hours) of a received, undeleted message ends.
\* A poll cycle lasts far less than the timeout: a message does not become
\* visible again during a pass over the iterator that received it.
VisibilityTimeout(m) ==
    /\ queue[m] = "invisible"
    /\ \A s \in Scheds : pc[s] \notin InCycle
    /\ queue' = [queue EXCEPT ![m] = "visible"]
    /\ UNCHANGED batchVars
    /\ UNCHANGED << content, lock_holder, schedVars, task, owner, runs, skipped >>

\* SIGTERM / SIGINT delivered to a scheduler whose handlers are installed.
signal_handler(s) ==
    /\ pc[s] \in Alive
    /\ ~shutdown_requested[s]
    /\ shutdown_requested' = [shutdown_requested EXCEPT ![s] = TRUE]
    /\ UNCHANGED batchVars
    /\ UNCHANGED << queue, content, lock_holder, pc, active_jobs, page_size,
                    page, msg, task, owner, runs, skipped >>

\* The scheduler process dies (SIGKILL, power loss): its memory and its pool
\* are gone, the kernel drops its flock; messages it had received and not
\* deleted stay invisible until their timeout.
Crash(s) ==
    /\ pc[s] \in Alive
    /\ pc' = [pc EXCEPT ![s] = "crashed"]
    /\ lock_holder' = IF lock_holder = s THEN 0 ELSE lock_holder
    /\ shutdown_requested' = [shutdown_requested EXCEPT ![s] = FALSE]
    /\ active_jobs' = [active_jobs EXCEPT ![s] = NoJobs]
    /\ page_size' = [page_size EXCEPT ![s] = 0]
    /\ page' = [page EXCEPT ![s] = {}]
    /\ msg' = [msg EXCEPT ![s] = 0]
    /\ task' = [m \in Msgs |->
                  IF owner[m] = s /\ task[m] \in NotDone THEN "lost" ELSE task[m]]
    /\ UNCHANGED batchVars
    /\ UNCHANGED << queue, content, owner, runs, skipped >>

(* ----------------------------- main thread ----------------------------- *)

\* (variant: the lock file is opened and written but never flock-ed)
FlockFails_nolock(s) == FALSE

\* flock(fp, LOCK_EX | LOCK_NB) raises IOError: another process holds it.
FlockFails(s) == lock_holder # 0

\* acquire_lock, then main up to its loop.  Scheduler processes are numbered
\* in the order they are launched.
acquire_lock(s) ==
    /\ pc[s] = "start"
    /\ \A k \in Scheds : k < s => pc[k] # "start"
    /\ IF FlockFails(s)
       THEN /\ pc' = [pc EXCEPT ![s] = "exited"]
            /\ UNCHANGED lock_holder
       ELSE /\ pc' = [pc EXCEPT ![s] = "loop"]
            /\ lock_holder' = s
    /\ UNCHANGED batchVars
    /\ UNCHANGED << queue, content, shutdown_requested, active_jobs, page_size,
                    page, msg, task, owner, runs, skipped >>

\* while not shutdown_requested:
LoopTest(s) ==
    /\ pc[s] = "loop"
    /\ pc' = [pc EXCEPT ![s] = IF shutdown_requested[s] THEN "finally" ELSE "poll"]
    /\ UNCHANGED batchVars
    /\ UNCHANGED << queue, content, lock_holder, shutdown_requested, active_jobs,
                    page_size, page, msg, task, owner, runs, skipped >>

\* poll_and_process up to the creation of the message iterator; with all
\* slots busy it returns and main sleeps 5 s.
PollBegin(s) ==
    /\ pc[s] = "poll"
    /\ LET aj == CleanUp(active_jobs[s])
           active_count == Count(aj)
           available_slots == MAX_WORKERS - active_count
       IN  /\ active_jobs' = [active_jobs EXCEPT ![s] = aj]
           /\ IF active_count >= MAX_WORKERS
              THEN /\ pc' = [pc EXCEPT ![s] = "loop"]
                   /\ UNCHANGED page_size
              ELSE /\ pc' = [pc EXCEPT ![s] = "iter"]
                   /\ page_size' = [page_size EXCEPT
                                      ![s] = MinOf(available_slots, BatchCap)]
    /\ UNCHANGED batchVars
    /\ UNCHANGED << queue, content, lock_holder, shutdown_requested, page, msg,
                    task, owner, runs, skipped >>

\* get_queue_client() raises (after get_active_count found a free slot).
GetQueueClientRaises(s) ==
    /\ pc[s] = "poll"
    /\ Count(CleanUp(active_jobs[s])) < MAX_WORKERS
    /\ active_jobs' = [active_jobs EXCEPT ![s] = CleanUp(active_jobs[s])]
    /\ pc' = [pc EXCEPT ![s] = AfterPollException]
    /\ UNCHANGED batchVars
    /\ UNCHANGED << queue, content, lock_holder, shutdown_requested, page_size,
                    page, msg, task, owner, runs, skipped >>

\* for msg in messages: the iterator yields the next message of its page;
\* with the page used up it requests another page of messages_per_page
\* messages, and stops only when a request returns none (then
\* poll_and_process returns and main sleeps 5 s).
NextMessage(s) ==
    /\ pc[s] = "iter"
    /\ LET fetch == page[s] = {}
           got == IF fetch THEN Dequeue(page_size[s]) ELSE page[s]
       IN  IF got = {}
           THEN /\ pc' = [pc EXCEPT ![s] = "loop"]
                /\ page_size' = [page_size EXCEPT ![s] = 0]
                /\ UNCHANGED << queue, page, msg >>
           ELSE /\ pc' = [pc EXCEPT ![s] = "handle"]
                /\ msg' = [msg EXCEPT ![s] = Min(got)]
                /\ page' = [page EXCEPT ![s] = got \ {Min(got)}]
                /\ queue' = [m \in Msgs |->
                               IF fetch /\ m \in got THEN "invisible" ELSE queue[m]]
                /\ UNCHANGED page_size
    /\ UNCHANGED batchVars
    /\ UNCHANGED << content, lock_holder, shutdown_requested, active_jobs,
                    task, owner, runs, skipped >>

\* The iterator's request to the queue service raises: the exception leaves
\* the for statement and poll_and_process.
ReceiveRaises(s) ==
    /\ pc[s] = "iter"
    /\ page[s] = {}
    /\ pc' = [pc EXCEPT ![s] = AfterPollException]
    /\ page_size' = [page_size EXCEPT ![s] = 0]
    /\ UNCHANGED batchVars
    /\ UNCHANGED << queue, content, lock_holder, shutdown_requested, active_jobs,
                    page, msg, task, owner, runs, skipped >>

\* except Exception in main: print, time.sleep(10), back to the loop test.
Backoff(s) ==
    /\ pc[s] = "backoff"
    /\ pc' = [pc EXCEPT ![s] = "loop"]
    /\ UNCHANGED batchVars
    /\ UNCHANGED << queue, content, lock_holder, shutdown_requested, active_jobs,
                    page_size, page, msg, task, owner, runs, skipped >>

(* ----------------------- one message of the loop ------------------------ *)

\* (variant: a message that does not parse is deleted like a dispatched one)
HandleMessage_deletebad(s) ==
    /\ pc[s] = "handle"
    /\ LET m == msg[s]
           payload == content[m]
       IN  IF payload.json /\ AlreadyInProgress(s, JobIdOf(payload))
           THEN /\ pc' = [pc EXCEPT ![s] = "iter"]
                /\ msg' = [msg EXCEPT ![s] = 0]
                /\ skipped' = [skipped EXCEPT ![m] = TRUE]
                /\ UNCHANGED active_jobs
           ELSE /\ pc' = [pc EXCEPT ![s] = "delete"]
                /\ active_jobs' = [active_jobs EXCEPT ![s] = CleanUp(active_jobs[s])]
                /\ UNCHANGED << msg, skipped >>
    /\ UNCHANGED batchVars
    /\ UNCHANGED << queue, content, lock_holder, shutdown_requested, page_size,
                    page, task, owner, runs >>

\* json.loads raises, or the payload's job is already in progress (continue):
\* in both cases the message is left as received.  Otherwise the print's
\* get_active_count() runs and the loop body goes on to delete_message.
HandleMessage(s) ==
    /\ pc[s] = "handle"
    /\ LET m == msg[s]
           payload == content[m]
       IN  IF ~payload.json
           THEN /\ pc' = [pc EXCEPT ![s] = "iter"]
                /\ msg' = [msg EXCEPT ![s] = 0]
                /\ UNCHANGED << active_jobs, skipped >>
           ELSE IF AlreadyInProgress(s, JobIdOf(payload))
           THEN /\ pc' = [pc EXCEPT ![s] = "iter"]
                /\ msg' = [msg EXCEPT ![s] = 0]
                /\ skipped' = [skipped EXCEPT ![m] = TRUE]
                /\ UNCHANGED active_jobs
           ELSE /\ pc' = [pc EXCEPT ![s] = "delete"]
                /\ active_jobs' = [active_jobs EXCEPT ![s] = CleanUp(active_jobs[s])]
                /\ UNCHANGED << msg, skipped >>
    /\ UNCHANGED batchVars
    /\ UNCHANGED << queue, content, lock_holder, shutdown_requested, page_size,
                    page, task, owner, runs >>

\* (variant: the message is not deleted before processing)
Deleted_not == "invisible"

\* What a successful delete_message leaves of the message on the queue.
Deleted == "deleted"

\* client.delete_message(msg.id, msg.pop_receipt) returns.
DeleteMessage(s) ==
    /\ pc[s] = "delete"
    /\ queue' = [queue EXCEPT ![msg[s]] = Deleted]
    /\ pc' = [pc EXCEPT ![s] = "submit"]
    /\ UNCHANGED batchVars
    /\ UNCHANGED << content, lock_holder, shutdown_requested, active_jobs,
                    page_size, page, msg, task, owner, runs, skipped >>

\* (variant: the failure of delete_message is swallowed before the submit)
AfterDeleteException_swallowed == "submit"

\* Where the loop body goes when delete_message raises: the except clause
\* of the loop body, then the next message.
AfterDeleteException == "iter"

\* client.delete_message raises: the message stays received and undeleted.
DeleteRaises(s) ==
    /\ pc[s] = "delete"
    /\ pc' = [pc EXCEPT ![s] = AfterDeleteException]
    /\ msg' = [msg EXCEPT ![s] = IF AfterDeleteException = "iter" THEN 0 ELSE msg[s]]
    /\ UNCHANGED batchVars
    /\ UNCHANGED << queue, content, lock_holder, shutdown_requested, active_jobs,
                    page_size, page, task, owner, runs, skipped >>

\* future = executor.submit(process_job, payload)
Submit(s) ==
    /\ pc[s] = "submit"
    /\ task' = [task EXCEPT ![msg[s]] = "pending"]
    /\ owner' = [owner EXCEPT ![msg[s]] = s]
    /\ pc' = [pc EXCEPT ![s] = "insert"]
    /\ UNCHANGED batchVars
    /\ UNCHANGED << queue, content, lock_holder, shutdown_requested, active_jobs,
                    page_size, page, msg, runs, skipped >>

\* with active_jobs_lock: active_jobs[job_id] = future
Insert(s) ==
    /\ pc[s] = "insert"
    /\ active_jobs' = [active_jobs EXCEPT ![s][JobIdOf(content[msg[s]])] = msg[s]]
    /\ pc' = [pc EXCEPT ![s] = "iter"]
    /\ msg' = [msg EXCEPT ![s] = 0]
    /\ UNCHANGED batchVars
    /\ UNCHANGED << queue, content, lock_holder, shutdown_requested, page_size,
                    page, task, owner, runs, skipped >>

(* ----------------------------- pool workers ---------------------------- *)

\* A free thread of the pool takes the task and enters process_job; with a
\* payload that passes the field test it starts the subprocess.
StartJob(m) ==
    /\ task[m] = "pending"
    /\ pc[owner[m]] \in Alive
    /\ Cardinality(Running(owner[m])) < MAX_WORKERS
    /\ runs[m] < MaxRuns
    /\ task' = [task EXCEPT ![m] = "running"]
    /\ runs' = [runs EXCEPT ![m] = IF ReachesSubprocess(content[m]) THEN @ + 1 ELSE @]
    /\ UNCHANGED batchVars
    /\ UNCHANGED << queue, content, lock_holder, schedVars, owner, skipped >>

\* (variant: the finally block empties the map)
Pop_clear(aj, j) == [k \in JobIds |-> 0]

\* What process_job's finally leaves of the map: active_jobs.pop(job_id, None)
Pop(aj, j) == [aj EXCEPT ![j] = 0]

\* How process_job can end: exit code 0 (True); a nonzero exit code or an
\* exception caught by process_job (False); without a subprocess, the
\* invalid-payload return (False).
Outcomes(p) == IF ReachesSubprocess(p) THEN { "true", "false" } ELSE { "false" }

\* process_job ends: the subprocess has exited (or raised), the finally
\* block pops job_id under the lock, and the future becomes done.
FinishJob(m, r) ==
    /\ task[m] = "running"
    /\ r \in Outcomes(content[m])
    /\ task' = [task EXCEPT ![m] = r]
    /\ active_jobs' = [active_jobs EXCEPT
                         ![owner[m]] = Pop(@, JobIdOf(content[m]))]
    /\ UNCHANGED batchVars
    /\ UNCHANGED << queue, content, lock_holder, pc, shutdown_requested,
                    page_size, page, msg, owner, runs, skipped >>

(* ----------------------------- shutdown -------------------------------- *)

\* finally: the print's get_active_count(), then executor.shutdown(wait=True)
Finally(s) ==
    /\ pc[s] = "finally"
    /\ active_jobs' = [active_jobs EXCEPT ![s] = CleanUp(active_jobs[s])]
    /\ pc' = [pc EXCEPT ![s] = "wait"]
    /\ UNCHANGED batchVars
    /\ UNCHANGED << queue, content, lock_holder, shutdown_requested, page_size,
                    page, msg, task, owner, runs, skipped >>

\* executor.shutdown(wait=True) has returned; lock_fp.close() drops the flock.
ShutdownDone(s) ==
    /\ pc[s] = "wait"
    /\ PoolIdle(s)
    /\ lock_holder' = IF lock_holder = s THEN 0 ELSE lock_holder
    /\ pc' = [pc EXCEPT ![s] = "done"]
    /\ UNCHANGED batchVars
    /\ UNCHANGED << queue, content, shutdown_requested, active_jobs, page_size,
                    page, msg, task, owner, runs, skipped >>

(* ----------------------------- specification --------------------------- *)

Next ==
    \/ \E m \in Msgs, p \in Payloads : Send(m, p)
    \/ \E m \in Msgs : VisibilityTimeout(m)
    \/ \E s \in Scheds : signal_handler(s)
    \/ \E s \in Scheds : Crash(s)
    \/ \E s \in Scheds : acquire_lock(s)
    \/ \E s \in Scheds : LoopTest(s)
    \/ \E s \in Scheds : PollBegin(s)
    \/ \E s \in Scheds : GetQueueClientRaises(s)
    \/ \E s \in Scheds : NextMessage(s)
    \/ \E s \in Scheds : ReceiveRaises(s)
    \/ \E s \in Scheds : Backoff(s)
    \/ \E s \in Scheds : HandleMessage(s)
    \/ \E s \in Scheds : DeleteMessage(s)
    \/ \E s \in Scheds : DeleteRaises(s)
    \/ \E s \in Scheds : Submit(s)
    \/ \E s \in Scheds : Insert(s)
    \/ \E m \in Msgs : StartJob(m)
    \/ \E m \in Msgs, r \in Finished : FinishJob(m, r)
    \/ \E s \in Scheds : Finally(s)
    \/ \E s \in Scheds : ShutdownDone(s)

Spec == Init /\ [][Next]_vars

(* ----------------------------- properties ------------------------------ *)

JobIdOfMsg(m) == JobIdOf(content[m])

\* Tasks of one scheduler's pool made from different messages of one job_id.
Siblings(m, k) == m # k /\ owner[m] # 0 /\ owner[m] = owner[k] /\ JobIdOfMsg(m) = JobIdOfMsg(k)

(* C1, as stated: a message that was received and skipped as a duplicate    *)
(* while the first job of its job_id was active never leads to a            *)
(* subprocess run: the scheduler executes the job_id exactly once.          *)
C1_SkippedNeverRuns ==
    \A m, k \in Msgs :
        (skipped[m] /\ Siblings(m, k) /\ runs[k] >= 1) => runs[m] = 0

(* C1, amended: while a job of a job_id is active (its future not done), no *)
(* other message of that job_id is deleted or dispatched by that scheduler: *)
(* at most one task per job_id is in flight, and a skipped duplicate is     *)
(* left on the queue, undeleted, for as long as the job that blocked it is  *)
(* running.                                                                 *)
C1_NoRunWhileFirstActive ==
    /\ \A m, k \in Msgs : Siblings(m, k) => ~(task[m] \in NotDone /\ task[k] \in NotDone)
    /\ \A s \in Scheds, m, k \in Msgs :
         (pc[s] \in { "delete", "submit" } /\ msg[s] = m /\ k # m /\ owner[k] = s
            /\ JobIdOfMsg(k) = JobIdOfMsg(m)) => task[k] \notin NotDone

C1_Witness ==
    \E m, k \in Msgs :
        /\ m # k /\ JobIdOfMsg(m) = JobIdOfMsg(k)
        /\ task[m] = "running" /\ runs[m] = 1
        /\ skipped[k] /\ queue[k] = "invisible" /\ task[k] = "none"

(* C2: once process_job has returned after its subprocess exited, the       *)
(* job_id is absent from the active-job map (no entry holds that future).   *)
C2_AbsentAfterReturn ==
    \A m \in Msgs :
        (Done(m) /\ runs[m] >= 1) => active_jobs[owner[m]][JobIdOfMsg(m)] # m

(* C3: in every reachable state the active-job map holds at most            *)
(* MAX_WORKERS admitted, unfinished jobs.                                   *)
C3_AtMostMaxWorkers ==
    \A s \in Scheds :
        Cardinality({ j \in JobIds : active_jobs[s][j] # 0
                                      /\ ~Done(active_jobs[s][j]) }) <= MAX_WORKERS

(* C4: a job is submitted to the pool, and recorded in the active-job map,  *)
(* only after its message was deleted from the queue; a message whose       *)
(* delete failed has no task and no map entry.                              *)
C4_DeleteBeforeSubmit ==
    /\ \A m \in Msgs : task[m] # "none" => queue[m] = "deleted"
    /\ \A s \in Scheds, j \in JobIds :
         active_jobs[s][j] # 0 => queue[active_jobs[s][j]] = "deleted"
    /\ \A s \in Scheds : pc[s] \in { "submit", "insert" } => queue[msg[s]] = "deleted"

\* Scheduler 1, with no other scheduler launched, is done with a message
\* it received, parsed and found no duplicate, and the message is neither
\* deleted nor dispatched: its delete_message raised.
C4_Witness ==
    \E m, k \in Msgs :
        /\ pc[1] = "iter" /\ pc[2] = "start" /\ m \notin page[1]
        /\ queue[m] = "invisible" /\ content[m].json /\ ~skipped[m] /\ task[m] = "none"
        /\ task[k] = "pending" /\ queue[k] = "deleted"

(* C5: every deleted message leads to at most one subprocess execution: a   *)
(* deleted message stays deleted (it is never redelivered), and a task that *)
(* ended, by exit code, by exception, or by the scheduler's crash, is never *)
(* run again.                                                               *)
C5_AtMostOnce ==
    [][ \A m \in Msgs :
          /\ runs'[m] <= 1
          /\ queue[m] = "deleted" => queue'[m] = "deleted"
          /\ task[m] \in Finished \cup { "lost" } =>
                 (task'[m] = task[m] /\ runs'[m] = runs[m]) ]_vars

\* One job failed, another was lost in a crash of its scheduler, and the
\* scheduler launched afterwards is polling.
C5_Witness ==
    \E m, k \in Msgs :
        /\ task[m] = "false" /\ runs[m] = 1
        /\ task[k] = "lost" /\ runs[k] = 1 /\ queue[k] = "deleted"
        /\ pc[1] = "crashed" /\ pc[2] = "iter" /\ page_size[2] > 0

(* C6: once the shutdown flag is set, the scheduler takes no further        *)
(* message from the queue, deletes none and dispatches none.                *)
C6_NoDequeueAfterSignal ==
    [][ \A s \in Scheds :
          shutdown_requested[s] =>
              /\ ~(pc[s] = "iter" /\ pc'[s] = "handle")
              /\ ~(pc[s] = "delete" /\ pc'[s] = "submit")
              /\ ~(pc[s] = "submit" /\ pc'[s] = "insert") ]_vars

(* C7: graceful shutdown cancels nothing: when main has released the lock,  *)
(* every task its pool was given is done and every valid job has run its    *)
(* subprocess; as long as a task is queued or running, its scheduler still  *)
(* holds the lock.                                                          *)
C7_ShutdownWaits ==
    /\ \A m \in Msgs :
         (owner[m] # 0 /\ pc[owner[m]] = "done") =>
             /\ Done(m)
             /\ ReachesSubprocess(content[m]) => runs[m] = 1
    /\ \A m \in Msgs : task[m] \in NotDone => lock_holder = owner[m]

\* Every message was dispatched by scheduler 1, ran its subprocess, and the
\* scheduler has shut down.
C7_Witness ==
    /\ pc[1] = "done" /\ lock_holder = 0
    /\ \A m \in Msgs : owner[m] = 1 /\ runs[m] = 1 /\ Done(m)

(* C8: at most one scheduler is past acquire_lock at any time, and it holds *)
(* the lock; a scheduler started while the lock is held exits at once, and  *)
(* never receives or deletes a message.                                     *)
C8_SingleInstance ==
    /\ [](\A s \in Scheds : pc[s] \in Alive =>
             (lock_holder = s /\ \A k \in Scheds \ {s} : pc[k] \notin Alive))
    /\ [][ \A s \in Scheds :
             /\ (pc[s] = "start" /\ lock_holder # 0 /\ pc'[s] # "start") =>
                    (pc'[s] = "exited" /\ queue' = queue /\ task' = task)
             /\ pc[s] = "exited" => pc'[s] = "exited" ]_vars

C8_Witness ==
    /\ pc[1] = "handle" /\ lock_holder = 1
    /\ pc[2] = "exited"

(* C9: when a job ends in failure (nonzero exit code or exception), the     *)
(* only scheduler state that changes is that job's own entry leaving the    *)
(* map: the other entries, the other tasks, the queue, the lock, the flag   *)
(* and the poll loop's position are as before.                              *)
C9_FailureIsolated ==
    [][ \A m \in Msgs :
          (task[m] = "running" /\ task'[m] = "false") =>
              /\ active_jobs[owner[m]][JobIdOfMsg(m)] \in { 0, m }
              /\ active_jobs' = [active_jobs EXCEPT ![owner[m]][JobIdOfMsg(m)] = 0]
              /\ \A k \in Msgs \ {m} : task'[k] = task[k]
              /\ UNCHANGED << queue, content, lock_holder, pc, shutdown_requested,
                              page_size, page, msg, owner, runs >>
              /\ pc[owner[m]] \in Alive ]_vars

\* A subprocess failed while a sibling job of the same scheduler is in the
\* map and in flight, and the poll loop is going on.
C9_Witness ==
    \E m, k \in Msgs :
        /\ m # k /\ owner[m] = owner[k] /\ owner[m] # 0
        /\ task[m] = "false" /\ runs[m] = 1
        /\ task[k] \in NotDone /\ active_jobs[owner[k]][JobIdOfMsg(k)] = k
        /\ pc[owner[m]] \in Polling

(* C10: an exception raised inside a poll cycle does not end the scheduler: *)
(* main leaves its loop only through the loop test; the exception leaves    *)
(* every task and every entry of an unfinished job as it was, the lock      *)
(* held, and after the backoff main is back at the loop test.               *)
C10_PollExceptionCaught ==
    [][ \A s \in Scheds :
          /\ (pc[s] \in Polling \ { "loop" }) => pc'[s] \in Polling \cup { "crashed" }
          /\ (pc[s] # "backoff" /\ pc'[s] = "backoff") =>
                 /\ task' = task /\ lock_holder' = lock_holder /\ lock_holder = s
                 /\ \A j \in JobIds :
                      AlreadyInProgress(s, j) => active_jobs'[s][j] = active_jobs[s][j]
          /\ (pc[s] = "backoff" /\ pc'[s] # "backoff") => pc'[s] \in { "loop", "crashed" } ]_vars

\* A request to the queue raised while a job is running: main is in its
\* backoff with the job still in the map.
C10_Witness ==
    \E s \in Scheds, m \in Msgs :
        /\ pc[s] = "backoff"
        /\ owner[m] = s /\ task[m] = "running" /\ active_jobs[s][JobIdOfMsg(m)] = m

(* ======================================================================= *)
(* worker/batch/csv_slot_filter.py: the range merger                        *)
(* ======================================================================= *)

\* Seconds of the ranges handed to the merger lie in 0..MaxSec.
MaxSec == 2
\* Longest list of ranges handed to the merger.
MaxRanges == 3

Max2(a, b) == IF a >= b THEN a ELSE b
Min2(a, b) == IF a <= b THEN a ELSE b

SeqRange(s) == { s[i] : i \in 1..Len(s) }

\* RULES: name, KPI whose aliases are its keys, condition, weight.
RULES ==
    << [name |-> "high_gmv",          kpi |-> "gmv",           condition |-> "gt_zero",    weight |-> 3],
       [name |-> "high_orders",       kpi |-> "order_count",   condition |-> "gt_zero",    weight |-> 3],
       [name |-> "high_conversion",   kpi |-> "ctor",          condition |-> "above_mean", weight |-> 2],
       [name |-> "high_gmv_per_view", kpi |-> "gpm",           condition |-> "above_mean", weight |-> 2],
       [name |-> "high_viewers",      kpi |-> "viewer_count",  condition |-> "above_mean", weight |-> 1],
       [name |-> "high_comments",     kpi |-> "comment_rate",  condition |-> "above_mean", weight |-> 1],
       [name |-> "high_click_rate",   kpi |-> "live_ctr",      condition |-> "above_mean", weight |-> 1],
       [name |-> "new_followers",     kpi |-> "new_followers", condition |-> "gt_zero",    weight |-> 2] >>

RuleIds == 1..Len(RULES)

\* The rule of a given name.
RuleNamed(n) == CHOOSE i \in RuleIds : RULES[i].name = n

\* A slot's score: the weights of its matched rules, added up.
RECURSIVE WeightSum(_)
WeightSum(matched_rules) ==
    IF matched_rules = << >> THEN 0
    ELSE RULES[RuleNamed(Head(matched_rules))].weight + WeightSum(Tail(matched_rules))

\* list(set(xs)): the distinct elements of xs, in an order the set's hashing
\* decides; one such order.
ListOfSet(S) == CHOOSE s \in [1..Cardinality(S) -> S] : SeqRange(s) = S

\* Stable insertion of r into a list sorted by start_sec: after every element
\* whose start_sec is not greater.
RECURSIVE InsertByStart(_, _)
InsertByStart(s, r) ==
    IF s = << >> \/ s[Len(s)].start_sec <= r.start_sec
    THEN Append(s, r)
    ELSE Append(InsertByStart(SubSeq(s, 1, Len(s) - 1), r), s[Len(s)])

\* sorted(ranges, key=lambda r: r["start_sec"])
RECURSIVE sorted_ranges(_)
sorted_ranges(ranges) ==
    IF ranges = << >> THEN << >>
    ELSE InsertByStart(sorted_ranges(SubSeq(ranges, 1, Len(ranges) - 1)),
                       ranges[Len(ranges)])

\* The merged range: last, widened by r.
Widen(last, r) ==
    [last EXCEPT !.end_sec = Max2(last.end_sec, r.end_sec),
                 !.end_frame = Max2(last.end_frame, r.end_frame),
                 !.score = Max2(last.score, r.score),
                 !.reasons = ListOfSet(SeqRange(last.reasons \o r.reasons))]

\* Variant: the overlapping range is merged into last and appended as well.
MergeStep_noelse(merged, r) ==
    LET last == merged[Len(merged)]
    IN  IF r.start_sec <= last.end_sec
        THEN Append([merged EXCEPT ![Len(merged)] = Widen(last, r)], r)
        ELSE Append(merged, r)

\* Variant: the merged range takes the end of the range merged last.
MergeStep_lastend(merged, r) ==
    LET last == merged[Len(merged)]
    IN  IF r.start_sec <= last.end_sec
        THEN [merged EXCEPT ![Len(merged)] = [Widen(last, r) EXCEPT !.end_sec = r.end_sec]]
        ELSE Append(merged, r)

\* One turn of  for r in sorted_ranges[1:].
MergeStep(merged, r) ==
    LET last == merged[Len(merged)]
    IN  IF r.start_sec <= last.end_sec
        THEN [merged EXCEPT ![Len(merged)] = Widen(last, r)]
        ELSE Append(merged, r)

RECURSIVE MergeLoop(_, _)
MergeLoop(merged, rest) ==
    IF rest = << >> THEN merged
    ELSE MergeLoop(MergeStep(merged, Head(rest)), Tail(rest))

\* _merge_overlapping_ranges(ranges)
merge_overlapping_ranges(ranges) ==
    IF ranges = << >> THEN << >>
    ELSE LET s == sorted_ranges(ranges)
         IN  MergeLoop(<< Head(s) >>, Tail(s))

\* The matched_rules lists of the slots the ranges are made from.
ReasonLists == { << "high_gmv" >>, << "high_viewers" >> }

\* A range as get_important_time_ranges builds it from a slot (fps = 1, so the
\* frames are the seconds), with any start and end.
RangeOf(a, b, rs) ==
    [start_sec |-> a, end_sec |-> b, start_frame |-> a, end_frame |-> b,
     score |-> WeightSum(rs), reasons |-> rs]

Ranges == { RangeOf(a, b, rs) : a \in 0..MaxSec, b \in 0..MaxSec, rs \in ReasonLists }

\* The lists of n ranges.
RangeLists(n) == [1..n -> Ranges]

MergeInit ==
    /\ WorkerInit
    /\ fn = "caller"
    /\ \E n \in 0..MaxRanges : \E rs \in RangeLists(n) : args = [ranges |-> rs]
    /\ ret = << >>
    /\ groups = << >>
    /\ phase_units = {}

\* merged = _merge_overlapping_ranges(ranges)
CallMerge ==
    /\ fn = "caller"
    /\ fn' = "_merge_overlapping_ranges"
    /\ ret' = merge_overlapping_ranges(args.ranges)
    /\ UNCHANGED << args, groups, phase_units >>
    /\ UNCHANGED workerVars

\* _merge_overlapping_ranges(merged): the merger applied to its own output.
CallMergeAgain ==
    /\ fn = "_merge_overlapping_ranges"
    /\ fn' = "_merge_overlapping_ranges again"
    /\ args' = [ranges |-> ret]
    /\ ret' = merge_overlapping_ranges(ret)
    /\ UNCHANGED << groups, phase_units >>
    /\ UNCHANGED workerVars

MergeNext ==
    \/ CallMerge
    \/ CallMergeAgain

MergeSpec == MergeInit /\ [][MergeNext]_vars

WellFormed(rs) == \A i \in 1..Len(rs) : rs[i].start_sec <= rs[i].end_sec

\* The seconds a list of ranges covers.
Covered(rs) == UNION { rs[i].start_sec .. rs[i].end_sec : i \in 1..Len(rs) }

\* C11: for well-formed ranges the merger returns ranges sorted by start_sec,
\* each starting strictly after the end of the one before, that cover exactly
\* the seconds the input covers.
C11_MergeSortedDisjointSameUnion ==
    (fn = "_merge_overlapping_ranges" /\ WellFormed(args.ranges)) =>
        /\ \A i \in 1..(Len(ret) - 1) : ret[i + 1].start_sec > ret[i].end_sec
        /\ \A i \in 1..(Len(ret) - 1) : ret[i].start_sec <= ret[i + 1].start_sec
        /\ Covered(ret) = Covered(args.ranges)

\* Three well-formed ranges given out of order, two of which merge.
C11_Witness ==
    /\ fn = "_merge_overlapping_ranges" /\ WellFormed(args.ranges)
    /\ Len(args.ranges) = 3 /\ Len(ret) = 2
    /\ args.ranges[1].start_sec > args.ranges[2].start_sec

\* Same ranges: same seconds, frames and score, and the same set of reasons.
SameRanges(xs, ys) ==
    /\ Len(xs) = Len(ys)
    /\ \A i \in 1..Len(xs) :
        /\ xs[i].start_sec = ys[i].start_sec /\ xs[i].end_sec = ys[i].end_sec
        /\ xs[i].start_frame = ys[i].start_frame /\ xs[i].end_frame = ys[i].end_frame
        /\ xs[i].score = ys[i].score
        /\ SeqRange(xs[i].reasons) = SeqRange(ys[i].reasons)

\* C12: the merger applied to its own output returns the same ranges.
C12_MergeIdempotent ==
    fn = "_merge_overlapping_ranges again" => SameRanges(ret, args.ranges)

\* The output merged again came from a list in which ranges were merged, and
\* holds more than one range.
C12_Witness ==
    /\ fn = "_merge_overlapping_ranges again"
    /\ Len(ret) = 2
    /\ \E i \in 1..Len(ret) : Cardinality(SeqRange(ret[i].reasons)) = 2

(* ======================================================================= *)
(* worker/batch/csv_slot_filter.py: the slot scorer                         *)
(* ======================================================================= *)

\* Python's float is IEEE binary64: 53 significant bits, round to nearest,
\* ties to even. The model keeps the rounding and narrows the format:
\* MantissaBits significant bits, spacing never below 2^-FracBits. A float is
\* written as its count of units of 2^-FracBits.
MantissaBits == 5
FracBits == 1

FloatUnit == 2 ^ FracBits

\* The spacing of the floats around n/d units, found from u upwards.
RECURSIVE Spacing(_, _, _)
Spacing(n, d, u) ==
    IF n < (2 ^ MantissaBits) * u * d THEN u ELSE Spacing(n, d, 2 * u)

\* The float nearest to n/d units (n >= 0, d > 0), ties to the even significand.
RoundToFloat(n, d) ==
    LET u == Spacing(n, d, 1)
        q == n \div (d * u)
        r == n % (d * u)
    IN  IF 2 * r > d * u \/ (2 * r = d * u /\ q % 2 = 1)
        THEN (q + 1) * u
        ELSE q * u

\* float(v) of a number cell v >= 0.
ToFloat(v) == RoundToFloat(v * FloatUnit, 1)

\* sum(vals): 0 + vals[0] + vals[1] + ..., each addition rounded.
RECURSIVE FloatSum(_, _)
FloatSum(acc, vals) ==
    IF vals = << >> THEN acc
    ELSE FloatSum(RoundToFloat(acc + Head(vals), 1), Tail(vals))

\* sum(vals) / len(vals)
FloatMean(vals) == RoundToFloat(FloatSum(0, vals), Len(vals))

\* Python's None, and a value that is not None.
None == << >>
Some(v) == << v >>

\* str.lower() on the headers of the model.
Lower(k) ==
    CASE k = "Time" -> "time"
      [] k = "GMV" -> "gmv"
      [] k = "CTOR" -> "ctor"
      [] k = "Viewers" -> "viewers"
      [] OTHER -> k

\* KPI_ALIASES, the ASCII aliases of the KPIs the rules and the time column use.
KPI_ALIASES ==
    [gmv           |-> << "GMV", "gmv", "Revenue", "revenue", "Sales", "sales" >>,
     order_count   |-> << "Orders", "orders", "Order Count", "order_count" >>,
     ctor          |-> << "CTOR", "ctor", "CVR", "cvr" >>,
     gpm           |-> << "GPM", "gpm", "gmv_per_1k_views" >>,
     viewer_count  |-> << "Viewers", "viewers", "Viewer Count", "viewer_count" >>,
     comment_rate  |-> << "Comment Rate", "comment_rate" >>,
     live_ctr      |-> << "LIVE CTR", "live_ctr", "click_rate" >>,
     new_followers |-> << "New Followers", "new_followers", "Follower Gain" >>,
     time          |-> << "Time", "time", "Timestamp", "timestamp" >>]

\* _find_key(entry, candidate_keys): the entry's key matching the first
\* candidate that matches any, letter case ignored.
find_key(entry, candidate_keys) ==
    LET hits == { i \in 1..Len(candidate_keys) :
                    \E k \in DOMAIN entry : Lower(k) = Lower(candidate_keys[i]) }
    IN  IF hits = {} THEN None
        ELSE Some(CHOOSE k \in DOMAIN entry : Lower(k) = Lower(candidate_keys[Min(hits)]))

\* _safe_float(val): None for an empty cell and for text that is no number.
safe_float(val) ==
    IF val.kind = "num" THEN Some(ToFloat(val.v)) ELSE None

\* _parse_time_to_seconds(val): a datetime.time, a number of seconds, "H:M"
\* (hours and minutes when H < 24, minutes and seconds otherwise) or "H:M:S".
parse_time_to_seconds(val) ==
    CASE val.kind = "time" -> Some(val.hour * 3600 + val.minute * 60 + val.second)
      [] val.kind = "num" -> Some(val.v)
      [] val.kind = "H:M" ->
            IF val.h < 24 THEN Some(val.h * 3600 + val.m * 60)
            ELSE Some(val.h * 60 + val.m)
      [] val.kind = "H:M:S" -> Some(val.h * 3600 + val.m * 60 + val.s)
      [] OTHER -> None

\* The headers that hold one of the words of the partial match.
HasTimeWord(k) == Lower(k) \in { "start time", "time", "timestamp" }

\* _detect_time_key(entries)
detect_time_key(entries) ==
    IF entries = << >> THEN None
    ELSE LET sample == entries[1]
             found == find_key(sample, KPI_ALIASES.time)
         IN  IF found # None THEN found
             ELSE IF \E k \in DOMAIN sample : HasTimeWord(k)
                  THEN Some(CHOOSE k \in DOMAIN sample : HasTimeWord(k))
                  ELSE None

\* The floats of a column, None left out.
RECURSIVE ColumnValues(_, _)
ColumnValues(trends, key) ==
    IF trends = << >> THEN << >>
    ELSE safe_float(Head(trends)[key]) \o ColumnValues(Tail(trends), key)

\* all_values: for each rule whose column is found in trends[0] and holds a
\* number in some row, the column and the mean of its numbers.
all_values(trends) ==
    LET key == [i \in RuleIds |-> find_key(trends[1], KPI_ALIASES[RULES[i].kpi])]
        vals == [i \in { r \in RuleIds : key[r] # None } |->
                    ColumnValues(trends, key[i][1])]
    IN  [i \in { r \in DOMAIN vals : vals[r] # << >> } |->
            [key |-> key[i][1], mean |-> FloatMean(vals[i])]]

\* Variant: a value of zero triggers a gt_zero rule as well.
Triggered_ge(condition, val, mean) ==
    IF condition = "gt_zero" THEN val >= 0 ELSE val > mean

\* triggered, for the two conditions of RULES.
Triggered(condition, val, mean) ==
    IF condition = "gt_zero" THEN val > 0 ELSE val > mean

\* The rules an entry triggers, from rule i on, in the order of RULES.
RECURSIVE MatchedFrom(_, _, _)
MatchedFrom(i, entry, info) ==
    IF i > Len(RULES) THEN << >>
    ELSE LET val == IF i \in DOMAIN info THEN safe_float(entry[info[i].key]) ELSE None
             hit == /\ val # None
                    /\ Triggered(RULES[i].condition, val[1], info[i].mean)
         IN  (IF hit THEN << RULES[i].name >> ELSE << >>)
                 \o MatchedFrom(i + 1, entry, info)

\* for entry in trends: the slots of the entries whose time parses.
RECURSIVE ScoreEntries(_, _, _)
ScoreEntries(entries, time_key, info) ==
    IF entries = << >> THEN << >>
    ELSE LET entry == Head(entries)
             time_sec == parse_time_to_seconds(entry[time_key])
             matched_rules == MatchedFrom(1, entry, info)
         IN  (IF time_sec = None THEN << >>
              ELSE << [time_key |-> entry[time_key], time_sec |-> time_sec[1],
                       score |-> WeightSum(matched_rules),
                       matched_rules |-> matched_rules, raw_entry |-> entry] >>)
                 \o ScoreEntries(Tail(entries), time_key, info)

\* compute_slot_scores(trends)
compute_slot_scores(trends) ==
    IF trends = << >> THEN << >>
    ELSE LET time_key == detect_time_key(trends)
         IN  IF time_key = None THEN << >>
             ELSE LET info == all_values(trends)
                  IN  ScoreEntries(trends, time_key[1], info)

\* Most rows of a trend sheet.
MaxRows == 3

\* Cells of a sheet: a number, text that is no number, an empty cell.
NumCell(v) == [kind |-> "num", v |-> v]
TextCell == [kind |-> "text"]
EmptyCell == [kind |-> "none"]

\* The sheets scored: a time column and one KPI column, the cells of each.
ScoreSheets ==
    { [Time |-> { [kind |-> "H:M", h |-> 0, m |-> 10], TextCell },
       GMV  |-> { EmptyCell, NumCell(0), NumCell(50), NumCell(100) }],
      [Time |-> { [kind |-> "H:M", h |-> 0, m |-> 10], TextCell },
       CTOR |-> { TextCell, NumCell(10), NumCell(11), NumCell(20), NumCell(30) }] }

\* The rows of a sheet: one cell per header.
RowsOf(sheet) == { row \in [DOMAIN sheet -> UNION { sheet[k] : k \in DOMAIN sheet }] :
                     \A k \in DOMAIN sheet : row[k] \in sheet[k] }

ScoreInit ==
    /\ WorkerInit
    /\ fn = "caller"
    /\ \E sheet \in ScoreSheets : \E n \in 0..MaxRows : \E rows \in [1..n -> RowsOf(sheet)] :
            args = [trends |-> rows]
    /\ ret = << >>
    /\ groups = << >>
    /\ phase_units = {}

\* scored = compute_slot_scores(trends)
CallComputeSlotScores ==
    /\ fn = "caller"
    /\ fn' = "compute_slot_scores"
    /\ ret' = compute_slot_scores(args.trends)
    /\ UNCHANGED << args, groups, phase_units >>
    /\ UNCHANGED workerVars

ScoreNext == CallComputeSlotScores

ScoreSpec == ScoreInit /\ [][ScoreNext]_vars

\* The cell an entry holds for a KPI, resolved in the entry itself.
ResolvedCell(entry, kpi) ==
    LET k == find_key(entry, KPI_ALIASES[kpi])
    IN  IF k = None THEN EmptyCell ELSE entry[k[1]]

GtZeroRules == { i \in RuleIds : RULES[i].condition = "gt_zero" }
AboveMeanRules == { i \in RuleIds : RULES[i].condition = "above_mean" }

\* The column of numbers  xs  in the order of the rows.
ColumnIs(trends, kpi, xs) ==
    /\ Len(trends) = Len(xs)
    /\ \A j \in 1..Len(xs) : ResolvedCell(trends[j], kpi) = NumCell(xs[j])

\* C14: a slot has a gt_zero rule in matched_rules, and the rule's weight in
\* its score, iff the number in the slot's own cell is strictly positive,
\* whatever the other rows hold; GMV 0, 100, 50 triggers high_gmv (weight 3)
\* for rows 2 and 3 only.
C14_GtZeroOwnValue ==
    fn = "compute_slot_scores" =>
        /\ \A j \in 1..Len(ret) :
            /\ \A i \in GtZeroRules :
                 LET cell == ResolvedCell(ret[j].raw_entry, RULES[i].kpi)
                 IN  (RULES[i].name \in SeqRange(ret[j].matched_rules))
                         <=> (cell.kind = "num" /\ cell.v > 0)
            /\ ret[j].score = WeightSum(ret[j].matched_rules)
        /\ (ColumnIs(args.trends, "gmv", << 0, 100, 50 >>) /\ Len(ret) = 3) =>
             /\ ret[1].matched_rules = << >> /\ ret[1].score = 0
             /\ ret[2].matched_rules = << "high_gmv" >> /\ ret[2].score = 3
             /\ ret[3].matched_rules = << "high_gmv" >> /\ ret[3].score = 3

\* The GMV column 0, 100, 50 of three rows whose times parse has been scored.
C14_Witness ==
    /\ fn = "compute_slot_scores"
    /\ ColumnIs(args.trends, "gmv", << 0, 100, 50 >>)
    /\ Len(ret) = 3 /\ ret[2].score = 3

\* The numbers of a KPI column over all rows, as written in the sheet.
RECURSIVE CellNumbers(_, _)
CellNumbers(trends, kpi) ==
    IF trends = << >> THEN << >>
    ELSE (LET cell == ResolvedCell(Head(trends), kpi)
          IN  IF cell.kind = "num" THEN << cell.v >> ELSE << >>)
             \o CellNumbers(Tail(trends), kpi)

RECURSIVE SumSeq(_)
SumSeq(xs) == IF xs = << >> THEN 0 ELSE Head(xs) + SumSeq(Tail(xs))

\* C15: a slot triggers an above_mean rule iff its number is strictly greater
\* than the arithmetic mean of the numbers of that column over all rows, the
\* rows whose time does not parse included (v > sum/n, written v * n > sum).
C15_AboveArithmeticMean ==
    fn = "compute_slot_scores" =>
        \A j \in 1..Len(ret) : \A i \in AboveMeanRules :
            LET cell == ResolvedCell(ret[j].raw_entry, RULES[i].kpi)
                xs == CellNumbers(args.trends, RULES[i].kpi)
            IN  (RULES[i].name \in SeqRange(ret[j].matched_rules))
                    <=> (cell.kind = "num" /\ cell.v * Len(xs) > SumSeq(xs))

(* ======================================================================= *)
(* worker/batch/csv_slot_filter.py: important ranges and the phase filter   *)
(* ======================================================================= *)

\* The defaults of get_important_time_ranges.
DefaultMarginSec == 600
DefaultMinScore == 1

\* The range of one important slot: its time in the video, widened by the
\* margin, the start cut at 0 and the end cut at the duration. Seconds are
\* whole in the model, so int() leaves them as they are (fps = 1).
SlotRange(slot, video_duration_sec, video_start_time_sec, margin_sec) ==
    LET slot_video_sec == slot.time_sec - video_start_time_sec
        range_start == Max2(0, slot_video_sec - margin_sec)
        range_end == Min2(video_duration_sec, slot_video_sec + margin_sec)
    IN  [start_sec |-> range_start, end_sec |-> range_end,
         start_frame |-> range_start, end_frame |-> range_end,
         score |-> slot.score, reasons |-> slot.matched_rules,
         slot_time |-> slot.time_key]

\* get_important_time_ranges(trends, video_duration_sec, video_start_time_sec,
\* margin_sec, min_score); video_start_time_sec is None or Some(seconds).
get_important_time_ranges(trends, video_duration_sec, video_start_time_sec, margin_sec, min_score) ==
    LET scored == compute_slot_scores(trends)
    IN  IF scored = << >> THEN << >>
        ELSE LET start == IF video_start_time_sec = None
                          THEN scored[1].time_sec
                          ELSE video_start_time_sec[1]
                 important == SelectSeq(scored, LAMBDA s : s.score >= min_score)
             IN  IF important = << >> THEN << >>
                 ELSE merge_overlapping_ranges(
                          [i \in 1..Len(important) |->
                              SlotRange(important[i], video_duration_sec, start, margin_sec)])

\* Variant: a range that only touches the phase does not count.
Overlaps_strict(phase_start_frame, phase_end_frame, r) ==
    phase_start_frame < r.end_frame /\ phase_end_frame > r.start_frame

\* The test of the loop of is_phase_in_important_range.
Overlaps(phase_start_frame, phase_end_frame, r) ==
    phase_start_frame <= r.end_frame /\ phase_end_frame >= r.start_frame

\* for r in important_ranges: return True at the first range that overlaps.
RECURSIVE FirstOverlap(_, _, _)
FirstOverlap(phase_start_frame, phase_end_frame, rest) ==
    IF rest = << >> THEN FALSE
    ELSE IF Overlaps(phase_start_frame, phase_end_frame, Head(rest)) THEN TRUE
    ELSE FirstOverlap(phase_start_frame, phase_end_frame, Tail(rest))

\* is_phase_in_important_range(phase_start_frame, phase_end_frame, important_ranges)
is_phase_in_important_range(phase_start_frame, phase_end_frame, important_ranges) ==
    IF important_ranges = << >> THEN TRUE
    ELSE FirstOverlap(phase_start_frame, phase_end_frame, important_ranges)

\* Variant: no ranges, no phase to analyse.
filter_phases_by_importance_closed(keyframes, total_frames, important_ranges) ==
    LET extended == << 0 >> \o keyframes \o << total_frames - 1 >>
    IN  [i \in 1..(Len(extended) - 1) |->
            important_ranges # << >>
            /\ is_phase_in_important_range(extended[i], extended[i + 1], important_ranges)]

\* filter_phases_by_importance(keyframes, total_frames, important_ranges)
filter_phases_by_importance(keyframes, total_frames, important_ranges) ==
    IF important_ranges = << >>
    THEN [i \in 1..(Len(keyframes) + 1) |-> TRUE]
    ELSE LET extended == << 0 >> \o keyframes \o << total_frames - 1 >>
         IN  [i \in 1..(Len(extended) - 1) |->
                 is_phase_in_important_range(extended[i], extended[i + 1], important_ranges)]

\* The sheets the ranges are taken from: with a time column (a datetime.time,
\* "30:00", a number of seconds, text) and without one.
RangeSheets ==
    { [Time |-> { [kind |-> "time", hour |-> 0, minute |-> 0, second |-> 0],
                  [kind |-> "H:M", h |-> 30, m |-> 0],
                  NumCell(5000), TextCell },
       GMV  |-> { NumCell(0), NumCell(100) }],
      [GMV  |-> { NumCell(0), NumCell(100) }] }

\* The calls made: the video's length, its start time (None: taken from the
\* first scored slot), the margin, the least score.
RangeCalls ==
    [video_duration_sec : { 3600 },
     video_start_time_sec : { None, Some(1200) },
     margin_sec : { 0, DefaultMarginSec },
     min_score : { DefaultMinScore, 4 }]

\* The phase boundaries handed to the phase filter.
KeyframeLists == { << >>, << 600, 2000 >> }

RangesInit ==
    /\ WorkerInit
    /\ fn = "caller"
    /\ \E sheet \in RangeSheets : \E n \in 0..MaxRows : \E rows \in [1..n -> RowsOf(sheet)] :
         \E call \in RangeCalls :
            args = [trends |-> rows,
                    video_duration_sec |-> call.video_duration_sec,
                    video_start_time_sec |-> call.video_start_time_sec,
                    margin_sec |-> call.margin_sec,
                    min_score |-> call.min_score]
    /\ ret = << >>
    /\ groups = << >>
    /\ phase_units = {}

\* important_ranges = get_important_time_ranges(...)
CallGetImportantTimeRanges ==
    /\ fn = "caller"
    /\ fn' = "get_important_time_ranges"
    /\ ret' = get_important_time_ranges(args.trends, args.video_duration_sec,
                  args.video_start_time_sec, args.margin_sec, args.min_score)
    /\ UNCHANGED << args, groups, phase_units >>
    /\ UNCHANGED workerVars

\* filter_phases_by_importance(keyframes, total_frames, important_ranges) on
\* the ranges returned, total_frames being the video's length (fps = 1).
CallFilterPhases(keyframes) ==
    /\ fn = "get_important_time_ranges"
    /\ fn' = "filter_phases_by_importance"
    /\ args' = [k \in DOMAIN args \cup { "keyframes", "total_frames", "important_ranges" } |->
                   CASE k = "keyframes" -> keyframes
                     [] k = "total_frames" -> args.video_duration_sec
                     [] k = "important_ranges" -> ret
                     [] OTHER -> args[k]]
    /\ ret' = filter_phases_by_importance(keyframes, args.video_duration_sec, ret)
    /\ UNCHANGED << groups, phase_units >>
    /\ UNCHANGED workerVars

RangesNext ==
    \/ CallGetImportantTimeRanges
    \/ \E keyframes \in KeyframeLists : CallFilterPhases(keyframes)

RangesSpec == RangesInit /\ [][RangesNext]_vars

\* C13: every range returned by get_important_time_ranges has
\* 0 <= start_sec <= end_sec <= video_duration_sec.
C13_RangesClipped ==
    fn = "get_important_time_ranges" =>
        \A i \in 1..Len(ret) :
            /\ 0 <= ret[i].start_sec
            /\ ret[i].start_sec <= ret[i].end_sec
            /\ ret[i].end_sec <= args.video_duration_sec

\* The sheet gives no importance signal: no rows, no time column, no time
\* that parses, or no slot with the least score.
NoSignal(trends, min_score) ==
    LET time_key == detect_time_key(trends)
        scored == compute_slot_scores(trends)
    IN  \/ trends = << >>
        \/ time_key = None
        \/ \A j \in 1..Len(trends) : parse_time_to_seconds(trends[j][time_key[1]]) = None
        \/ \A j \in 1..Len(scored) : scored[j].score < min_score

\* C17: without an importance signal get_important_time_ranges returns the
\* empty list, and filter_phases_by_importance then marks every one of the
\* len(keyframes) + 1 phases important.
C17_FailOpen ==
    /\ (fn = "get_important_time_ranges" /\ NoSignal(args.trends, args.min_score)) =>
          ret = << >>
    /\ (fn = "filter_phases_by_importance" /\ NoSignal(args.trends, args.min_score)) =>
          /\ args.important_ranges = << >>
          /\ Len(ret) = Len(args.keyframes) + 1
          /\ \A i \in 1..Len(ret) : ret[i] = TRUE

\* Rows with a time column and times that parse, none reaching min_score,
\* and two keyframes: three phases, all marked.
C17_Witness ==
    /\ fn = "filter_phases_by_importance"
    /\ NoSignal(args.trends, args.min_score)
    /\ Len(compute_slot_scores(args.trends)) >= 2
    /\ Len(ret) = 3

(* ----------------------------------------------------------------------- *)

\* Longest list of ranges a phase is tested against.
MaxPhaseRanges == 2

PhaseInit ==
    /\ WorkerInit
    /\ fn = "caller"
    /\ \E n \in 0..MaxPhaseRanges : \E rs \in RangeLists(n) :
         \E a \in 0..MaxSec, b \in 0..MaxSec :
            args = [phase_start_frame |-> a, phase_end_frame |-> b,
                    important_ranges |-> rs]
    /\ ret = << >>
    /\ groups = << >>
    /\ phase_units = {}

\* is_phase_in_important_range(phase_start_frame, phase_end_frame, important_ranges)
CallIsPhaseInImportantRange ==
    /\ fn = "caller"
    /\ fn' = "is_phase_in_important_range"
    /\ ret' = is_phase_in_important_range(args.phase_start_frame,
                  args.phase_end_frame, args.important_ranges)
    /\ UNCHANGED << args, groups, phase_units >>
    /\ UNCHANGED workerVars

PhaseNext == CallIsPhaseInImportantRange

PhaseSpec == PhaseInit /\ [][PhaseNext]_vars

\* The frames a..b.
Frames(a, b) == a..b

\* C16: is_phase_in_important_range is true iff there are no ranges or some
\* range has phase_start <= end_frame and phase_end >= start_frame; for a
\* phase and ranges with start <= end that is: the phase shares a frame with
\* some range, one frame being enough, and it is false when the phase is
\* disjoint from every range.
C16_PhaseOverlap ==
    fn = "is_phase_in_important_range" =>
        LET rs == args.important_ranges
            ps == args.phase_start_frame
            pe == args.phase_end_frame
        IN  /\ ret <=> (rs = << >> \/ \E i \in 1..Len(rs) :
                           ps <= rs[i].end_frame /\ pe >= rs[i].start_frame)
            /\ (ps <= pe /\ WellFormed(rs) /\ rs # << >>) =>
                  (ret <=> \E i \in 1..Len(rs) :
                              Frames(ps, pe) \cap Frames(rs[i].start_frame, rs[i].end_frame) # {})

\* A phase that shares exactly its last frame with the only range it meets.
C16_Witness ==
    /\ fn = "is_phase_in_important_range" /\ ret = TRUE
    /\ Len(args.important_ranges) = 2 /\ WellFormed(args.important_ranges)
    /\ args.phase_start_frame < args.phase_end_frame
    /\ \E i \in 1..2 : args.important_ranges[i].start_frame = args.phase_end_frame
    /\ \A i \in 1..2 :
          Cardinality(Frames(args.phase_start_frame, args.phase_end_frame)
                        \cap Frames(args.important_ranges[i].start_frame,
                                    args.important_ranges[i].end_frame)) <= 1

(* ======================================================================= *)
(* worker/batch/product_detection_pipeline.py: merge_detections_to_timeline *)
(* ======================================================================= *)

\* Frame indices of the detections lie in 0..MaxFrame.
MaxFrame == 12
\* Most frames that hold a detection.
MaxDetFrames == 3

\* The defaults of merge_detections_to_timeline; confidences are written in
\* hundredths (0.5 is 50), times in whole seconds (float() of a frame index
\* is that number).
DefaultSampleInterval == 5
DefaultMinDuration == 8
DefaultConfidenceThreshold == 50

\* sorted(S) of a set of numbers.
RECURSIVE SortedSet(_)
SortedSet(S) ==
    IF S = {} THEN << >> ELSE << Min(S) >> \o SortedSet(S \ { Min(S) })

\* A detection that is not skipped: not background_only, named, and with a
\* confidence not below the threshold.
Kept(det, confidence_threshold) ==
    /\ det.detection_reason # "background_only"
    /\ det.product_name # ""
    /\ ~ (det.confidence < confidence_threshold)

\* The kept detections of the frames  fs  in order, as (name, fidx, conf).
RECURSIVE KeptDetections(_, _, _)
KeptDetections(frame_detections, fs, confidence_threshold) ==
    IF fs = << >> THEN << >>
    ELSE LET fidx == Head(fs)
             dets == SelectSeq(frame_detections[fidx],
                               LAMBDA det : Kept(det, confidence_threshold))
         IN  [i \in 1..Len(dets) |-> << dets[i].product_name, fidx, dets[i].confidence >>]
                 \o KeptDetections(frame_detections, Tail(fs), confidence_threshold)

\* The keys of product_frames in the order they were inserted.
RECURSIVE ProductNames(_, _)
ProductNames(kept, seen) ==
    IF kept = << >> THEN << >>
    ELSE IF Head(kept)[1] \in seen THEN ProductNames(Tail(kept), seen)
    ELSE << Head(kept)[1] >> \o ProductNames(Tail(kept), seen \cup { Head(kept)[1] })

\* product_frames[name]: the (fidx, conf) pairs of a product, by frame index.
ProductFrames(kept, name) ==
    LET own == SelectSeq(kept, LAMBDA d : d[1] = name)
    IN  [i \in 1..Len(own) |-> << own[i][2], own[i][3] >>]

\* Variant: a gap equal to the tolerance starts a new segment.
Continues_less(fidx, seg_end, gap_tolerance) == fidx - seg_end < gap_tolerance

\* The frame continues the current segment.
Continues(fidx, seg_end, gap_tolerance) == fidx - seg_end <= gap_tolerance

\* for i in range(1, len(frames)), and the append after the loop.
RECURSIVE SegmentLoop(_, _, _, _, _, _)
SegmentLoop(segments, seg_start, seg_end, seg_confs, rest, gap_tolerance) ==
    IF rest = << >> THEN Append(segments, << seg_start, seg_end, seg_confs >>)
    ELSE LET fidx == Head(rest)[1]
             conf == Head(rest)[2]
         IN  IF Continues(fidx, seg_end, gap_tolerance)
             THEN SegmentLoop(segments, seg_start, fidx, Append(seg_confs, conf),
                              Tail(rest), gap_tolerance)
             ELSE SegmentLoop(Append(segments, << seg_start, seg_end, seg_confs >>),
                              fidx, fidx, << conf >>, Tail(rest), gap_tolerance)

\* The segments of one product's frames; gap_tolerance = sample_interval * 2 + 1.
Segments(frames, sample_interval) ==
    SegmentLoop(<< >>, frames[1][1], frames[1][1], << frames[1][2] >>, Tail(frames),
                sample_interval * 2 + 1)

\* round(sum(confs) / len(confs), 2), in hundredths: the nearest whole number
\* of hundredths, a tie going to the even one.
RoundedMean(confs) ==
    LET total == SumSeq(confs)
        q == total \div Len(confs)
        r == total % Len(confs)
    IN  IF 2 * r > Len(confs) \/ (2 * r = Len(confs) /\ q % 2 = 1) THEN q + 1 ELSE q

\* The exposures of one product: its segments, end moved on by one sampling
\* interval, those shorter than min_duration dropped.
RECURSIVE SegmentExposures(_, _, _, _)
SegmentExposures(product_name, segments, sample_interval, min_duration) ==
    IF segments = << >> THEN << >>
    ELSE LET time_start == Head(segments)[1]
             time_end == Head(segments)[2] + sample_interval
             duration == time_end - time_start
         IN  (IF duration < min_duration THEN << >>
              ELSE << [product_name |-> product_name, brand_name |-> "",
                       time_start |-> time_start, time_end |-> time_end,
                       confidence |-> RoundedMean(Head(segments)[3])] >>)
                 \o SegmentExposures(product_name, Tail(segments), sample_interval,
                                     min_duration)

\* for product_name, frames in product_frames.items()
RECURSIVE ProductExposures(_, _, _, _)
ProductExposures(names, kept, sample_interval, min_duration) ==
    IF names = << >> THEN << >>
    ELSE SegmentExposures(Head(names),
                          Segments(ProductFrames(kept, Head(names)), sample_interval),
                          sample_interval, min_duration)
             \o ProductExposures(Tail(names), kept, sample_interval, min_duration)

\* Stable insertion of e into a list sorted by time_start.
RECURSIVE InsertByTimeStart(_, _)
InsertByTimeStart(s, e) ==
    IF s = << >> \/ s[Len(s)].time_start <= e.time_start
    THEN Append(s, e)
    ELSE Append(InsertByTimeStart(SubSeq(s, 1, Len(s) - 1), e), s[Len(s)])

\* exposures.sort(key=lambda x: x["time_start"])
RECURSIVE SortedByTimeStart(_)
SortedByTimeStart(exposures) ==
    IF exposures = << >> THEN << >>
    ELSE InsertByTimeStart(SortedByTimeStart(SubSeq(exposures, 1, Len(exposures) - 1)),
                           exposures[Len(exposures)])

\* merge_detections_to_timeline(frame_detections, sample_interval,
\* min_duration, confidence_threshold); frame_detections maps a frame index
\* to the list of its detections.
merge_detections_to_timeline(frame_detections, sample_interval, min_duration, confidence_threshold) ==
    IF DOMAIN frame_detections = {} THEN << >>
    ELSE LET kept == KeptDetections(frame_detections,
                                    SortedSet(DOMAIN frame_detections),
                                    confidence_threshold)
         IN  SortedByTimeStart(
                 ProductExposures(ProductNames(kept, {}), kept, sample_interval,
                                  min_duration))

\* The detections a frame may hold: product X seen, X below the confidence
\* threshold, X in the background only, product Y seen.
Detections ==
    { [product_name |-> "X", confidence |-> 90, detection_reason |-> "held_in_hand"],
      [product_name |-> "X", confidence |-> 30, detection_reason |-> "held_in_hand"],
      [product_name |-> "X", confidence |-> 90, detection_reason |-> "background_only"],
      [product_name |-> "Y", confidence |-> 50, detection_reason |-> "held_in_hand"] }

\* The calls made: the defaults, and a min_duration of one sampling interval.
TimelineCalls ==
    [sample_interval : { DefaultSampleInterval },
     min_duration : { DefaultMinDuration, DefaultSampleInterval },
     confidence_threshold : { DefaultConfidenceThreshold }]

TimelineInit ==
    /\ WorkerInit
    /\ fn = "caller"
    /\ \E fs \in SUBSET (0..MaxFrame) :
         /\ Cardinality(fs) <= MaxDetFrames
         /\ \E dets \in [fs -> Detections] : \E call \in TimelineCalls :
               args = [frame_detections |-> [f \in fs |-> << dets[f] >>],
                       sample_interval |-> call.sample_interval,
                       min_duration |-> call.min_duration,
                       confidence_threshold |-> call.confidence_threshold]
    /\ ret = << >>
    /\ groups = << >>
    /\ phase_units = {}

\* exposures = merge_detections_to_timeline(frame_detections, ...)
CallMergeDetectionsToTimeline ==
    /\ fn = "caller"
    /\ fn' = "merge_detections_to_timeline"
    /\ ret' = merge_detections_to_timeline(args.frame_detections, args.sample_interval,
                  args.min_duration, args.confidence_threshold)
    /\ UNCHANGED << args, groups, phase_units >>
    /\ UNCHANGED workerVars

TimelineNext == CallMergeDetectionsToTimeline

TimelineSpec == TimelineInit /\ [][TimelineNext]_vars

\* The frames with a kept detection of a product.
DetectedFrames(name) ==
    { f \in DOMAIN args.frame_detections :
        \E i \in 1..Len(args.frame_detections[f]) :
            /\ args.frame_detections[f][i].product_name = name
            /\ Kept(args.frame_detections[f][i], args.confidence_threshold) }

\* The segments returned for a product, as (time_start, time_end).
ReturnedSegments(name) ==
    { << ret[i].time_start, ret[i].time_end >> :
        i \in { k \in 1..Len(ret) : ret[k].product_name = name } }

\* f and g are detected frames of the product with no detected frame between.
Consecutive(S, f, g) == f \in S /\ g \in S /\ f < g /\ ~ \E h \in S : f < h /\ h < g

\* The detected frames joined to f by gaps of at most 2 * interval + 1.
RunOf(S, f, interval) ==
    { g \in S : \A a, b \in S :
        (Consecutive(S, a, b) /\ Min2(f, g) <= a /\ b <= Max2(f, g))
            => b - a <= 2 * interval + 1 }

\* The returned segments of the product that hold the detected frame f.
SegmentsHolding(name, f) ==
    { sg \in ReturnedSegments(name) : sg[1] <= f /\ f + args.sample_interval <= sg[2] }

MaxItems == 10

\* The float32 components of a vector are written in thousandths, rounded down.
VecScale == 1000

\* COSINE_THRESHOLD = 0.82, in thousandths.
COSINE_THRESHOLD == 820

\* Unit-norm embeddings at 0, 32, 50, 62, 74 and 90 degrees of one plane.
Embeddings ==
    { << 1000, 0 >>, << 848, 530 >>, << 643, 766 >>, << 469, 883 >>,
      << 276, 961 >>, << 0, 1000 >> }

\* np.dot(a, b), in units of VecScale^-2.
Dot(a, b) == a[1] * b[1] + a[2] * b[2]

\* cosine(a, b) = float(np.dot(a, b))
cosine(a, b) == Dot(a, b) \div VecScale

\* The whole part of the square root of x, sought between lo and hi.
RECURSIVE SqrtBetween(_, _, _)
SqrtBetween(x, lo, hi) ==
    IF lo >= hi THEN lo
    ELSE LET mid == (lo + hi + 1) \div 2
         IN  IF mid * mid <= x THEN SqrtBetween(x, mid, hi)
             ELSE SqrtBetween(x, lo, mid - 1)

\* np.linalg.norm(v)
Norm(v) == SqrtBetween(Dot(v, v), 0, 2 * VecScale)

\* l2_normalize(v)
l2_normalize(v) ==
    LET norm == Norm(v)
    IN  IF norm = 0 THEN v
        ELSE << (v[1] * VecScale) \div norm, (v[2] * VecScale) \div norm >>

\* Variant: best_score starts at 1.0.
InitialBestScore_one == VecScale

\* best_score = -1.0
InitialBestScore == 0 - VecScale

\* Variant: a later group at the same score replaces the earlier one.
RECURSIVE BestGroup_last(_, _, _, _, _)
BestGroup_last(gs, v, i, best_group, best_score) ==
    IF i > Len(gs) THEN [group |-> best_group, score |-> best_score]
    ELSE LET score == cosine(v, gs[i].centroid)
         IN  IF score >= best_score
             THEN BestGroup_last(gs, v, i + 1, i, score)
             ELSE BestGroup_last(gs, v, i + 1, best_group, best_score)

\* for g in groups: the first group with the greatest score above best_score
\* (0 for None), and that score.
RECURSIVE BestGroup(_, _, _, _, _)
BestGroup(gs, v, i, best_group, best_score) ==
    IF i > Len(gs) THEN [group |-> best_group, score |-> best_score]
    ELSE LET score == cosine(v, gs[i].centroid)
         IN  IF score > best_score
             THEN BestGroup(gs, v, i + 1, i, score)
             ELSE BestGroup(gs, v, i + 1, best_group, best_score)

\* Variant: an existing group is joined whatever the score.
JoinsExisting_any(best) == best.group # 0

\* if best_group and best_score >= COSINE_THRESHOLD
JoinsExisting(best) == best.group # 0 /\ best.score >= COSINE_THRESHOLD

\* The centroid of a group of n members after v has joined.
NewCentroid(centroid, n, v) ==
    l2_normalize(<< (centroid[1] * n + v[1]) \div (n + 1),
                    (centroid[2] * n + v[2]) \div (n + 1) >>)

\* Variant: a joined group keeps its size.
AssignOne_samesize(gs, v) ==
    LET best == BestGroup(gs, v, 1, 0, InitialBestScore)
    IN  IF JoinsExisting(best)
        THEN [groups |-> [gs EXCEPT ![best.group] =
                             [@ EXCEPT !.centroid = NewCentroid(@, gs[best.group].size, v)]],
              group_id |-> gs[best.group].group_id]
        ELSE [groups |-> Append(gs, [group_id |-> Len(gs) + 1, centroid |-> v, size |-> 1]),
              group_id |-> Len(gs) + 1]

\* One turn of  for p in phase_units  for the embedding v: the groups after
\* it and the group_id given to p.
AssignOne(gs, v) ==
    LET best == BestGroup(gs, v, 1, 0, InitialBestScore)
    IN  IF JoinsExisting(best)
        THEN [groups |-> [gs EXCEPT ![best.group] =
                             [@ EXCEPT !.centroid = NewCentroid(@, gs[best.group].size, v),
                                       !.size = @ + 1]],
              group_id |-> gs[best.group].group_id]
        ELSE [groups |-> Append(gs, [group_id |-> Len(gs) + 1, centroid |-> v, size |-> 1]),
              group_id |-> Len(gs) + 1]

\* No phase unit has been assigned and the group list is empty; ret counts
\* the phase units returned with a group_id.
GroupInit ==
    /\ WorkerInit
    /\ fn = "caller"
    /\ args = << >>
    /\ ret = 0
    /\ groups = << >>
    /\ phase_units = {}

\* assign_phases_to_groups([p], groups) for a phase unit p with embedding v.
AssignPhase(v) ==
    /\ ret < MaxItems
    /\ fn' = "assign_phases_to_groups"
    /\ LET assigned == AssignOne(groups, v)
       IN  /\ groups' = assigned.groups
           /\ phase_units' = phase_units \cup { << v, assigned.group_id >> }
    /\ ret' = ret + 1
    /\ UNCHANGED args
    /\ UNCHANGED workerVars

GroupNext == \E v \in Embeddings : AssignPhase(v)

GroupSpec == GroupInit /\ [][GroupNext]_vars

\* C19: from an empty group list, the same unit-norm embedding assigned N
\* times (N >= 1) gives exactly one group, of size N, and every one of the N
\* items carries its group_id.
C19_SameEmbeddingOneGroup ==
    (ret >= 1 /\ \E e \in Embeddings : \A pu \in phase_units : pu[1] = e) =>
        /\ Len(groups) = 1
        /\ groups[1].size = ret
        /\ \A pu \in phase_units : pu[2] = groups[1].group_id

\* One embedding, not along an axis, has been assigned MaxItems times.
C19_Witness ==
    /\ ret = MaxItems
    /\ \E e \in Embeddings : e[1] > 0 /\ e[2] > 0 /\ \A pu \in phase_units : pu[1] = e

Orthogonal(a, b) == Dot(a, b) = 0 /\ Dot(a, a) > 0 /\ Dot(b, b) > 0

\* C20 as stated: two mutually orthogonal embeddings never carry the same
\* group_id, whatever was assigned before or between them.
C20_OrthogonalNeverTogether ==
    \A p, q \in phase_units : Orthogonal(p[1], q[1]) => p[2] # q[2]

\* C20 (amended): when only two mutually orthogonal embeddings have been
\* assigned, in any order and any number of times each, they never carry the
\* same group_id.
C20_OrthogonalAloneApart ==
    \A a, b \in Embeddings :
        (Orthogonal(a, b) /\ \A pu \in phase_units : pu[1] \in { a, b }) =>
            \A p, q \in phase_units : (p[1] = a /\ q[1] = b) => p[2] # q[2]

\* Two orthogonal embeddings, and nothing else, have been assigned several
\* times each.
C20_Witness ==
    \E a, b \in Embeddings :
        /\ Orthogonal(a, b)
        /\ { pu[1] : pu \in phase_units } = { a, b }
        /\ Len(groups) = 2 /\ groups[1].size >= 2 /\ groups[2].size >= 2

(* ----------------------------------------------------------------------- *)
(* assign_phases_to_groups on a loaded store, item by item                  *)
(* ----------------------------------------------------------------------- *)

\* Most phase units assigned on a loaded store.
MaxStoreItems == 5

\* Most phase units behind a loaded store.
MaxStored == 2

\* Unit-norm embeddings at 0, 16, 45 and 74 degrees: the third is as close to
\* the second as to the fourth.
StoreEmbeddings == { << 1000, 0 >>, << 960, 280 >>, << 707, 707 >>, << 280, 960 >> }

\* assign_phases_to_groups(phase_units, groups) for the embeddings es: the
\* returned phase units (done, then those of es) and the returned groups.
RECURSIVE assign_phases_to_groups(_, _, _)
assign_phases_to_groups(es, gs, done) ==
    IF es = << >> THEN [phase_units |-> done, groups |-> gs]
    ELSE LET assigned == AssignOne(gs, Head(es))
         IN  assign_phases_to_groups(Tail(es), assigned.groups,
                 Append(done, [embedding |-> Head(es), group_id |-> assigned.group_id]))

\* The lists of at most n embeddings.
EmbeddingLists(n) == UNION { [1..k -> StoreEmbeddings] : k \in 0..n }

\* The stores that save_global_groups has written after at most MaxStored
\* phase units.
Stores == { assign_phases_to_groups(es, << >>, << >>).groups : es \in EmbeddingLists(MaxStored) }

\* load_global_groups() has returned a store; no phase unit is assigned yet.
\* phase_units is the list of the phase units returned so far.
StoreInit ==
    /\ WorkerInit
    /\ fn = "load_global_groups"
    /\ args = << >>
    /\ groups \in Stores
    /\ ret = groups
    /\ phase_units = << >>

\* assign_phases_to_groups([p], groups) for a phase unit p with embedding v.
AssignStored(v) ==
    /\ Len(phase_units) < MaxStoreItems
    /\ fn' = "assign_phases_to_groups"
    /\ args' = [embedding |-> v]
    /\ LET assigned == assign_phases_to_groups(<< v >>, groups, phase_units)
       IN  /\ groups' = assigned.groups
           /\ phase_units' = assigned.phase_units
           /\ ret' = assigned.groups
    /\ UNCHANGED workerVars

StoreNext == \E v \in StoreEmbeddings : AssignStored(v)

StoreSpec == StoreInit /\ [][StoreNext]_vars

\* The phase units added by a step that carry the group_id id.
NewItemsOf(id) ==
    { k \in (Len(phase_units) + 1)..Len(phase_units') : phase_units'[k].group_id = id }

\* C21: across assignments no group is removed, a group's size never
\* decreases and grows by exactly 1 per item merged into it, and the group_id
\* of an item assigned earlier is not changed.
C21_OnlineMonotone ==
    [][ /\ Len(groups') >= Len(groups)
        /\ \A i \in 1..Len(groups) :
              /\ groups'[i].group_id = groups[i].group_id
              /\ groups'[i].size >= groups[i].size
              /\ groups'[i].size - groups[i].size = Cardinality(NewItemsOf(groups[i].group_id))
        /\ Len(phase_units') >= Len(phase_units)
        /\ \A k \in 1..Len(phase_units) : phase_units'[k] = phase_units[k]
      ]_vars

\* A group has grown by three items while another group exists and an
\* earlier item sits in a third place.
C21_Witness ==
    /\ Len(groups) >= 2
    /\ Len(phase_units) >= 4
    /\ \E i \in 1..Len(groups) :
          Cardinality({ k \in 1..Len(phase_units) : phase_units[k].group_id = groups[i].group_id }) >= 3

\* The greatest similarity of v to a centroid of gs.
MaxSimilarity(gs, v) ==
    CHOOSE s \in { cosine(v, gs[i].centroid) : i \in 1..Len(gs) } :
        \A i \in 1..Len(gs) : cosine(v, gs[i].centroid) <= s

\* The earliest group of gs at the greatest similarity to v.
EarliestBest(gs, v) ==
    CHOOSE i \in 1..Len(gs) :
        /\ cosine(v, gs[i].centroid) = MaxSimilarity(gs, v)
        /\ \A j \in 1..(i - 1) : cosine(v, gs[j].centroid) < MaxSimilarity(gs, v)

\* C28: group_ids stay 1..|groups|; an item joins an existing group iff its
\* greatest similarity is >= 0.82, the earliest group at that similarity, and
\* otherwise opens a group of size 1 whose id is the group count + 1.
C28_IdsUniqueAndJoinRule ==
    [][ LET v == args'.embedding
            item == phase_units'[Len(phase_units')]
        IN  /\ \A i \in 1..Len(groups') : groups'[i].group_id = i
            /\ item.embedding = v
            /\ IF groups # << >> /\ MaxSimilarity(groups, v) >= COSINE_THRESHOLD
               THEN /\ Len(groups') = Len(groups)
                    /\ item.group_id = groups[EarliestBest(groups, v)].group_id
                    /\ groups'[EarliestBest(groups, v)].size = groups[EarliestBest(groups, v)].size + 1
               ELSE /\ Len(groups') = Len(groups) + 1
                    /\ groups'[Len(groups')] = [group_id |-> Len(groups) + 1, centroid |-> v, size |-> 1]
                    /\ item.group_id = Len(groups) + 1
                    /\ \A i \in 1..Len(groups) : groups'[i] = groups[i]
      ]_vars

\* An item equally close to two groups, above the threshold, has joined the
\* earlier one, and another item has opened a third group.
C28_Witness ==
    /\ Len(groups) >= 3
    /\ \E k \in 1..Len(phase_units) :
          /\ phase_units[k].embedding = << 707, 707 >>
          /\ phase_units[k].group_id = 1
    /\ groups[2].centroid = << 280, 960 >>
    /\ cosine(<< 707, 707 >>, << 280, 960 >>) = cosine(<< 707, 707 >>, << 960, 280 >>)

(* ----------------------------------------------------------------------- *)
(* process_video.py, STEP 7: two jobs on one groups.json                    *)
(* ----------------------------------------------------------------------- *)

\* Most phase units of one job.
MaxJobItems == 2

\* The jobs are two processes, each running process_video.py once.
Jobs == { 1, 2 }

\* Unit-norm embeddings at 0, 16 and 74 degrees.
JobEmbeddings == { << 1000, 0 >>, << 960, 280 >>, << 280, 960 >> }

\* The phase units of a job: at least one, at most n.
JobLists(n) == UNION { [1..k -> JobEmbeddings] : k \in 1..n }

\* groups.json before the jobs: absent or empty, or written after one phase
\* unit.
JobStores ==
    { << >> } \cup
    { assign_phases_to_groups(<< e >>, << >>, << >>).groups : e \in JobEmbeddings }

\* Variant: an existing file is left as it is.
Dumped_keep(file, data) == IF file = << >> THEN data ELSE file

\* open(path, "w") ... json.dump(data, f): the file after the write.
Dumped(file, data) == data

\* groups holds groups.json; args[j] holds job j's place in STEP 7, its
\* embedded phase units, what it loaded and its own groups list;
\* phase_units[j] holds its returned phase units; ret lists the jobs in the
\* order of their saves.
JobsInit ==
    /\ WorkerInit
    /\ fn = "caller"
    /\ groups \in JobStores
    /\ \E e1 \in JobLists(MaxJobItems) : \E e2 \in JobLists(MaxJobItems) :
          args = [j \in Jobs |->
                     [pc |-> "embedded", embeddings |-> IF j = 1 THEN e1 ELSE e2,
                      loaded |-> << >>, groups |-> << >>]]
    /\ phase_units = [j \in Jobs |-> << >>]
    /\ ret = << >>

\* groups = load_global_groups()
LoadGlobalGroups(j) ==
    /\ args[j].pc = "embedded"
    /\ fn' = "load_global_groups"
    /\ args' = [args EXCEPT ![j] = [@ EXCEPT !.pc = "loaded", !.loaded = groups,
                                             !.groups = groups]]
    /\ UNCHANGED << groups, phase_units, ret >>
    /\ UNCHANGED workerVars

\* phase_units, groups = assign_phases_to_groups(phase_units, groups)
AssignPhasesToGroups(j) ==
    /\ args[j].pc = "loaded"
    /\ fn' = "assign_phases_to_groups"
    /\ LET assigned == assign_phases_to_groups(args[j].embeddings, args[j].groups, << >>)
       IN  /\ args' = [args EXCEPT ![j] = [@ EXCEPT !.pc = "assigned",
                                                    !.groups = assigned.groups]]
           /\ phase_units' = [phase_units EXCEPT ![j] = assigned.phase_units]
    /\ UNCHANGED << groups, ret >>
    /\ UNCHANGED workerVars

\* save_global_groups(groups)
SaveGlobalGroups(j) ==
    /\ args[j].pc = "assigned"
    /\ fn' = "save_global_groups"
    /\ groups' = Dumped(groups, args[j].groups)
    /\ args' = [args EXCEPT ![j] = [@ EXCEPT !.pc = "saved"]]
    /\ ret' = Append(ret, j)
    /\ UNCHANGED phase_units
    /\ UNCHANGED workerVars

JobsNext ==
    \E j \in Jobs :
        \/ LoadGlobalGroups(j)
        \/ AssignPhasesToGroups(j)
        \/ SaveGlobalGroups(j)

JobsSpec == JobsInit /\ [][JobsNext]_vars

\* The sum of the sizes of the groups gs.
RECURSIVE TotalSize(_)
TotalSize(gs) == IF gs = << >> THEN 0 ELSE Head(gs).size + TotalSize(Tail(gs))

\* Both jobs have saved, and both had loaded before either saved.
BothLoadedBeforeSaves ==
    /\ Len(ret) = 2
    /\ args[1].loaded = args[2].loaded

\* C22: when both jobs load before either saves, the later save overwrites
\* the earlier one: the final store is what the later job alone makes of the
\* loaded store, without the first job's groups and size increments, while
\* the first job's items keep the group_ids it assigned.
C22_LostUpdate ==
    BothLoadedBeforeSaves =>
        LET first == ret[1]
            last == ret[2]
            loaded == args[last].loaded
        IN  /\ groups = args[last].groups
            /\ groups = assign_phases_to_groups(args[last].embeddings, loaded, << >>).groups
            /\ TotalSize(groups) = TotalSize(loaded) + Len(args[last].embeddings)
            /\ TotalSize(groups) < TotalSize(loaded) + Len(args[first].embeddings)
                                       + Len(args[last].embeddings)
            /\ phase_units[first] =
                   assign_phases_to_groups(args[first].embeddings, loaded, << >>).phase_units

\* Both jobs loaded before either saved, the first job had opened a group
\* that the final store does not hold, and an item of the first job carries
\* that group's id.
C22_Witness ==
    /\ BothLoadedBeforeSaves
    /\ Len(args[ret[1]].groups) > Len(groups)
    /\ \E k \in 1..Len(phase_units[ret[1]]) : phase_units[ret[1]][k].group_id > Len(groups)

(* ======================================================================= *)
(* product_detection_pipeline.py: enrich_with_transcription                 *)
(* ======================================================================= *)

\* Most segments of a transcript.
MaxTranscript == 2

\* Most exposures handed to enrich_with_transcription.
MaxExposures == 1

\* Text is a sequence of characters.  The upper-case letters of the model
\* and their lower-case forms.
LowerChar(c) ==
    CASE c = "A" -> "a"
      [] c = "C" -> "c"
      [] c = "E" -> "e"
      [] c = "M" -> "m"
      [] c = "R" -> "r"
      [] c = "Z" -> "z"
      [] OTHER -> c

\* str.lower()
str_lower(s) == [i \in 1..Len(s) |-> LowerChar(s[i])]

\* kw in text
IsSubstring(kw, text) ==
    \E i \in 0..(Len(text) - Len(kw)) : \A j \in 1..Len(kw) : text[i + j] = kw[j]

\* The characters re.split(r'[\s　・/\-]+', name) splits at, those a name of
\* the model may hold.
Separators == { " ", "/", "-" }

\* re.split(...): the words of s between runs of separators; word is the
\* word being read.
RECURSIVE SplitWords(_, _)
SplitWords(s, word) ==
    IF s = << >> THEN << word >>
    ELSE IF Head(s) \in Separators
         THEN IF Tail(s) # << >> /\ Head(Tail(s)) \in Separators
              THEN SplitWords(Tail(s), word)
              ELSE << word >> \o SplitWords(Tail(s), << >>)
         ELSE SplitWords(Tail(s), Append(word, Head(s)))

\* skip_words, the ASCII ones.
skip_words ==
    { << "k", "y", "o", "g", "o", "k", "u" >>,
      << "t", "h", "e" >>, << "a", "n", "d" >>, << "f", "o", "r" >>, << "p", "r", "o" >> }

\* The keywords of a product: its name, its brand if any, and the words of
\* the name of three characters or more that are no skip word, in lower case.
Keywords(p) ==
    LET words == SplitWords(p.product_name, << >>)
    IN  { str_lower(p.product_name) }
        \cup (IF p.brand_name # << >> THEN { str_lower(p.brand_name) } ELSE {})
        \cup { str_lower(words[i]) : i \in { i \in 1..Len(words) :
                   Len(words[i]) >= 3 /\ str_lower(words[i]) \notin skip_words } }

\* product_keywords: the keywords by product name, products without a name
\* left out; the last product of a name is the one kept.
product_keywords(product_list) ==
    [name \in { product_list[i].product_name :
                    i \in { i \in 1..Len(product_list) : product_list[i].product_name # << >> } } |->
        LET named == { i \in 1..Len(product_list) : product_list[i].product_name = name }
        IN  Keywords(product_list[CHOOSE i \in named : \A j \in named : j <= i])]

\* " ".join(texts)
RECURSIVE JoinTexts(_)
JoinTexts(texts) ==
    IF texts = << >> THEN << >>
    ELSE IF Len(texts) = 1 THEN texts[1]
    ELSE Head(texts) \o << " " >> \o JoinTexts(Tail(texts))

\* Variant: a segment ending exactly margin seconds before the start is
\* left out.
InWindow_strict(seg, time_start, time_end, margin) ==
    seg.end > time_start - margin /\ seg.start <= time_end + margin

\* seg_end >= (time_start - margin) and seg_start <= (time_end + margin)
InWindow(seg, time_start, time_end, margin) ==
    seg.end >= time_start - margin /\ seg.start <= time_end + margin

\* The margin of get_transcript_text, in seconds.
TranscriptMargin == 10

\* get_transcript_text(time_start, time_end)
get_transcript_text(transcription_segments, time_start, time_end) ==
    LET near == SelectSeq(transcription_segments,
                    LAMBDA seg : InWindow(seg, time_start, time_end, TranscriptMargin))
    IN  str_lower(JoinTexts([i \in 1..Len(near) |-> near[i].text]))

\* check_audio_mention(product_name, transcript_text): the match count.
check_audio_mention(keywords_of, product_name, transcript_text) ==
    IF transcript_text = << >> THEN 0
    ELSE LET keywords == IF product_name \in DOMAIN keywords_of
                         THEN keywords_of[product_name]
                         ELSE { str_lower(product_name) }
         IN  Cardinality({ kw \in keywords : IsSubstring(kw, transcript_text) })

\* Variant: the boost is not capped.
Boost_uncapped(match_count) == match_count * 8

\* boost = min(0.20, match_count * 0.08), in hundredths.
Boost(match_count) == Min2(20, match_count * 8)

\* round(confidence * 0.6, 2), in hundredths: the nearest hundredth, ties to
\* the even one.
Penalised(confidence) ==
    LET q == (confidence * 6) \div 10
        r == (confidence * 6) % 10
    IN  IF 2 * r > 10 \/ (2 * r = 10 /\ q % 2 = 1) THEN q + 1 ELSE q

\* The body of  for exp in exposures  for one exposure.
AudioScored(exp, transcription_segments, keywords_of) ==
    LET transcript_text == get_transcript_text(transcription_segments, exp.time_start,
                                               exp.time_end)
        match_count == check_audio_mention(keywords_of, exp.product_name, transcript_text)
    IN  IF match_count > 0
        THEN [product_name |-> exp.product_name, brand_name |-> exp.brand_name,
              time_start |-> exp.time_start, time_end |-> exp.time_end,
              confidence |-> Min2(100, exp.confidence + Boost(match_count)),
              audio_confirmed |-> TRUE]
        ELSE [product_name |-> exp.product_name, brand_name |-> exp.brand_name,
              time_start |-> exp.time_start, time_end |-> exp.time_end,
              confidence |-> Penalised(exp.confidence),
              audio_confirmed |-> FALSE]

\* already_exists: an exposure of the product lies within 10 seconds of seg.
AlreadyExists(exposures, product_name, seg) ==
    \E i \in 1..Len(exposures) :
        /\ exposures[i].product_name = product_name
        /\ Min2(exposures[i].time_end, seg.end) - Max2(exposures[i].time_start, seg.start) > -10

\* The products of keywords_of, in the order of product_list.
RECURSIVE KeywordNames(_, _)
KeywordNames(product_list, seen) ==
    IF product_list = << >> THEN << >>
    ELSE LET name == Head(product_list).product_name
         IN  IF name = << >> \/ name \in seen THEN KeywordNames(Tail(product_list), seen)
             ELSE << name >> \o KeywordNames(Tail(product_list), seen \cup { name })

\* The audio-only detections of one transcript segment.
RECURSIVE AudioOnlyOfSegment(_, _, _, _)
AudioOnlyOfSegment(seg, names, keywords_of, exposures) ==
    IF names = << >> THEN << >>
    ELSE (IF /\ \E kw \in keywords_of[Head(names)] :
                    IsSubstring(kw, str_lower(seg.text)) /\ Len(kw) >= 3
             /\ ~AlreadyExists(exposures, Head(names), seg)
          THEN << [product_name |-> Head(names), brand_name |-> << >>,
                   time_start |-> seg.start, time_end |-> seg.end,
                   confidence |-> 55, audio_confirmed |-> TRUE] >>
          ELSE << >>)
         \o AudioOnlyOfSegment(seg, Tail(names), keywords_of, exposures)

\* audio_only_detections
RECURSIVE AudioOnlyDetections(_, _, _, _)
AudioOnlyDetections(transcription_segments, names, keywords_of, exposures) ==
    IF transcription_segments = << >> THEN << >>
    ELSE AudioOnlyOfSegment(Head(transcription_segments), names, keywords_of, exposures)
         \o AudioOnlyDetections(Tail(transcription_segments), names, keywords_of, exposures)

\* enrich_with_transcription(exposures, transcription_segments, product_list)
enrich_with_transcription(exposures, transcription_segments, product_list) ==
    IF transcription_segments = << >> \/ product_list = << >> THEN exposures
    ELSE LET keywords_of == product_keywords(product_list)
             scored == [i \in 1..Len(exposures) |->
                           AudioScored(exposures[i], transcription_segments, keywords_of)]
         IN  SortedByTimeStart(
                 scored \o AudioOnlyDetections(transcription_segments,
                               KeywordNames(product_list, {}), keywords_of, scored))

\* The product list of the model: one product with a brand.
ProductLists ==
    { << >>,
      << [product_name |-> << "R", "e", "d", " ", "C", "u", "p" >>, brand_name |-> << "A", "c", "m", "e" >>] >> }

\* The exposures merge_detections_to_timeline may return for the listed
\* product and for a product that is not listed.
Exposure(name, confidence) ==
    [product_name |-> name, brand_name |-> << >>, time_start |-> 15, time_end |-> 25,
     confidence |-> confidence]

ExposureKinds ==
    { Exposure(name, c) : name \in { << "R", "e", "d", " ", "C", "u", "p" >>, << "Z", "e", "d" >> }, c \in { 0, 51, 90, 100 } }

\* Transcript segments: ending before, and at, 10 seconds before the
\* exposure; starting at, and after, 10 seconds after it.  The texts hold one,
\* two and none of the product's keywords.
TranscriptKinds ==
    { [start |-> w[1], end |-> w[2], text |-> x] :
        w \in { << 0, 4 >>, << 0, 5 >>, << 35, 40 >>, << 36, 40 >> },
        x \in { << "R", "e", "d" >>, << "A", "C", "M", "E", " ", "c", "u", "p" >>, << "c", "a", "b" >> } }

EnrichInit ==
    /\ WorkerInit
    /\ fn = "caller"
    /\ \E n \in 0..MaxExposures : \E es \in [1..n -> ExposureKinds] :
       \E m \in 0..MaxTranscript : \E ts \in [1..m -> TranscriptKinds] :
       \E pl \in ProductLists :
          args = [exposures |-> es, transcription_segments |-> ts, product_list |-> pl]
    /\ ret = << >>
    /\ groups = << >>
    /\ phase_units = {}

CallEnrichWithTranscription ==
    /\ fn = "caller"
    /\ fn' = "enrich_with_transcription"
    /\ ret' = enrich_with_transcription(args.exposures, args.transcription_segments,
                                        args.product_list)
    /\ UNCHANGED << args, groups, phase_units >>
    /\ UNCHANGED workerVars

EnrichNext == CallEnrichWithTranscription

EnrichSpec == EnrichInit /\ [][EnrichNext]_vars

\* The call had a transcript and a product list.
Enriched ==
    /\ fn = "enrich_with_transcription"
    /\ args.transcription_segments # << >>
    /\ args.product_list # << >>

\* The number of keywords of the exposure's product found in the text of the
\* transcript segments within 10 seconds of the exposure.
MatchesNear(exp) ==
    LET p == args.product_list[1]
        kws == IF exp.product_name = p.product_name
               THEN Keywords(p) ELSE { str_lower(exp.product_name) }
        idx == { i \in 1..Len(args.transcription_segments) :
                    /\ args.transcription_segments[i].end >= exp.time_start - 10
                    /\ args.transcription_segments[i].start <= exp.time_end + 10 }
        text == str_lower(JoinTexts([k \in 1..Cardinality(idx) |->
                    args.transcription_segments[
                        CHOOSE i \in idx : Cardinality({ j \in idx : j <= i }) = k].text]))
    IN  Cardinality({ kw \in kws : IsSubstring(kw, text) })

\* The exposures of the returned list that were given, not added: those with
\* the product and the times of a given one, in the order given.
PreExisting ==
    SelectSeq(ret, LAMBDA e :
        \E i \in 1..Len(args.exposures) :
            /\ e.product_name = args.exposures[i].product_name
            /\ e.time_start = args.exposures[i].time_start
            /\ e.time_end = args.exposures[i].time_end)

Returned(i) == PreExisting[i]

\* C23 as stated: a segment whose keywords do not match gets exactly 0.6
\* times its confidence (confidences in hundredths: 10 c' = 6 c).
C23_PenaltyIsSixTenths ==
    Enriched =>
        \A i \in 1..Len(args.exposures) :
            MatchesNear(args.exposures[i]) = 0 =>
                10 * Returned(i).confidence = 6 * args.exposures[i].confidence

\* C23 (amended): every given segment is returned with audio_confirmed set;
\* with k >= 1 keywords matching within 10 seconds its confidence is
\* min(1.0, confidence + min(0.20, 0.08 k)) and audio_confirmed is true; with
\* none matching its confidence is 0.6 * confidence rounded to two decimals
\* and audio_confirmed is false; the confidence stays within [0, 1].
C23_AudioScoring ==
    Enriched =>
        /\ Len(PreExisting) = Len(args.exposures)
        /\ \A i \in 1..Len(args.exposures) :
              LET given == args.exposures[i]
                  k == MatchesNear(given)
                  e == Returned(i)
              IN  /\ "audio_confirmed" \in DOMAIN e
                  /\ e.audio_confirmed = (k >= 1)
                  /\ k >= 1 => e.confidence = Min2(100, given.confidence + Min2(20, 8 * k))
                  /\ k = 0 =>
                        /\ 10 * e.confidence - 6 * given.confidence <= 5
                        /\ 6 * given.confidence - 10 * e.confidence <= 5
                  /\ e.confidence >= 0 /\ e.confidence <= 100

\* Three keywords matched a segment of confidence 0.51, which was returned
\* confirmed at 0.71.
C23_Witness ==
    /\ Enriched
    /\ Len(args.exposures) >= 1
    /\ MatchesNear(args.exposures[1]) = 3
    /\ args.exposures[1].confidence = 51
    /\ Returned(1).confidence = 71
    /\ Returned(1).audio_confirmed

(* ======================================================================= *)
(* product_detection_pipeline.py: post_filter_exposures                     *)
(* ======================================================================= *)

\* Most exposures handed to post_filter_exposures.
MaxFiltered == 2

\* final_confidence_threshold = 0.45, in hundredths.
DefaultFinalConfidenceThreshold == 45

\* min_final_duration = 8.0
DefaultMinFinalDuration == 8

\* exp.get("confidence", 0)
GetConfidence(exp) == IF "confidence" \in DOMAIN exp THEN exp.confidence ELSE 0

\* exp.get("audio_confirmed"), read as a truth value: None counts as false.
GetAudioConfirmed(exp) == "audio_confirmed" \in DOMAIN exp /\ exp.audio_confirmed

\* Variant: an audio-confirmed segment needs a confidence above 0.40.
PassesFilter_above(exp, final_confidence_threshold, min_final_duration) ==
    LET duration == exp.time_end - exp.time_start
        conf == GetConfidence(exp)
    IN  IF GetAudioConfirmed(exp)
        THEN conf > 40 /\ duration >= 5
        ELSE conf >= final_confidence_threshold /\ duration >= min_final_duration

\* The test of  for exp in exposures : the segment goes to filtered.
PassesFilter(exp, final_confidence_threshold, min_final_duration) ==
    LET duration == exp.time_end - exp.time_start
        conf == GetConfidence(exp)
    IN  IF GetAudioConfirmed(exp)
        THEN conf >= 40 /\ duration >= 5
        ELSE conf >= final_confidence_threshold /\ duration >= min_final_duration

\* post_filter_exposures(exposures, final_confidence_threshold, min_final_duration)
RECURSIVE post_filter_exposures(_, _, _)
post_filter_exposures(exposures, final_confidence_threshold, min_final_duration) ==
    IF exposures = << >> THEN << >>
    ELSE (IF PassesFilter(Head(exposures), final_confidence_threshold, min_final_duration)
          THEN << Head(exposures) >> ELSE << >>)
         \o post_filter_exposures(Tail(exposures), final_confidence_threshold,
                                  min_final_duration)

\* Segments as merge_detections_to_timeline leaves them (no audio_confirmed)
\* and as enrich_with_transcription leaves them, around both thresholds.
FilterKinds ==
    { [time_start |-> 10, time_end |-> 10 + d, confidence |-> c] :
          d \in { 4, 5, 7, 8 }, c \in { 39, 40, 44, 45 } }
    \cup
    { [time_start |-> 10, time_end |-> 10 + d, confidence |-> c, audio_confirmed |-> a] :
          d \in { 4, 5, 7, 8 }, c \in { 39, 40, 44, 45 }, a \in BOOLEAN }

FilterInit ==
    /\ WorkerInit
    /\ fn = "caller"
    /\ \E n \in 0..MaxFiltered : \E es \in [1..n -> FilterKinds] :
          args = [exposures |-> es,
                  final_confidence_threshold |-> DefaultFinalConfidenceThreshold,
                  min_final_duration |-> DefaultMinFinalDuration]
    /\ ret = << >>
    /\ groups = << >>
    /\ phase_units = {}

CallPostFilterExposures ==
    /\ fn = "caller"
    /\ fn' = "post_filter_exposures"
    /\ ret' = post_filter_exposures(args.exposures, args.final_confidence_threshold,
                                    args.min_final_duration)
    /\ UNCHANGED << args, groups, phase_units >>
    /\ UNCHANGED workerVars

FilterNext == CallPostFilterExposures

FilterSpec == FilterInit /\ [][FilterNext]_vars

\* The rule of the claim for one segment, confidence in hundredths.
KeptByRule(exp) ==
    LET confirmed == IF "audio_confirmed" \in DOMAIN exp THEN exp.audio_confirmed ELSE FALSE
        duration == exp.time_end - exp.time_start
    IN  \/ (confirmed /\ exp.confidence >= 40 /\ duration >= 5)
        \/ (~confirmed /\ exp.confidence >= 45 /\ duration >= 8)

\* C24: post_filter_exposures returns, in their order, exactly the segments
\* that are (audio_confirmed, confidence >= 0.40, duration >= 5s) or (not
\* audio_confirmed, confidence >= 0.45, duration >= 8s); a segment without
\* the audio_confirmed field counts as not confirmed.
C24_PostFilterRule ==
    fn = "post_filter_exposures" => ret = SelectSeq(args.exposures, KeptByRule)

\* A confirmed segment at 0.40 and 5s was kept and a segment without the
\* field at 0.44 and 8s was dropped.
C24_Witness ==
    /\ fn = "post_filter_exposures"
    /\ Len(args.exposures) = 2
    /\ Len(ret) = 1
    /\ "audio_confirmed" \notin DOMAIN args.exposures[1]
    /\ args.exposures[1].confidence = 44
    /\ args.exposures[1].time_end - args.exposures[1].time_start = 8
    /\ ret[1] = [time_start |-> 10, time_end |-> 15, confidence |-> 40, audio_confirmed |-> TRUE]

(* ======================================================================= *)
(* product_detection_pipeline.py: detect_products_in_frame                  *)
(* ======================================================================= *)

\* The frames sent to detection.
MaxApiFrames == 2

\* for attempt in range(5)
MaxAttempts == 5

ApiFrames == 1..MaxApiFrames

\* What client.responses.create or the reading of its answer may raise, and
\* the classes each is an instance of.
ErrorClasses ==
    [RateLimitError     |-> { "RateLimitError", "APIStatusError", "APIError", "Exception" },
     APITimeoutError    |-> { "APITimeoutError", "APIConnectionError", "APIError", "Exception" },
     APIConnectionError |-> { "APIConnectionError", "APIError", "Exception" },
     BadRequestError    |-> { "BadRequestError", "APIStatusError", "APIError", "Exception" },
     TypeError          |-> { "TypeError", "Exception" },
     KeyboardInterrupt  |-> { "KeyboardInterrupt" }]

\* The errors the API raises.
ApiErrors == { e \in DOMAIN ErrorClasses : "APIError" \in ErrorClasses[e] }

\* The errors client.responses.create may raise.
CallErrors == ApiErrors \cup { "KeyboardInterrupt" }

\* Variant: the second clause catches nothing of the API.
ExceptClauses_retryonly ==
    << [classes |-> { "RateLimitError", "APITimeoutError" }, does |-> "retry"],
       [classes |-> { "TypeError" }, does |-> "empty"] >>

\* except (RateLimitError, APITimeoutError): sleep, next attempt;
\* except (APIError, Exception): return [].
ExceptClauses ==
    << [classes |-> { "RateLimitError", "APITimeoutError" }, does |-> "retry"],
       [classes |-> { "APIError", "Exception" }, does |-> "empty"] >>

\* What the try statement does with the error: the first clause naming one
\* of its classes, "propagate" when none does.
Handled(e) ==
    LET hits == { i \in 1..Len(ExceptClauses) :
                     ExceptClauses[i].classes \cap ErrorClasses[e] # {} }
    IN  IF hits = {} THEN "propagate" ELSE ExceptClauses[Min(hits)].does

\* The answers of the model: output_text that is no JSON, JSON without
\* "detected_products", with null, with an empty list, and with one product
\* held in the hand and one in the background.
ApiResponses ==
    { [json |-> FALSE],
      [json |-> TRUE, has_key |-> FALSE],
      [json |-> TRUE, has_key |-> TRUE, detected_products |-> "null"],
      [json |-> TRUE, has_key |-> TRUE, detected_products |-> << >>],
      [json |-> TRUE, has_key |-> TRUE, detected_products |->
          << [product_name |-> "X", confidence |-> 90, detection_reason |-> "hand_holding"],
             [product_name |-> "Y", confidence |-> 90, detection_reason |-> "background_only"] >>] }

\* The lines after the call, for an answer whose detected_products is a
\* list: the detections that are not background_only.
ResultsOf(r) ==
    IF r.json /\ r.has_key
    THEN SelectSeq(r.detected_products, LAMBDA det : det.detection_reason # "background_only")
    ELSE << >>

\* args[f] is the call for frame f: where it is, the attempt of the for loop,
\* the API calls made and how the last of them ended (an error, or "answer");
\* ret[f] is what it returned.
DetectInit ==
    /\ WorkerInit
    /\ fn = "caller"
    /\ args = [f \in ApiFrames |->
                  [pc |-> "pending", attempt |-> 0, calls |-> 0, last_error |-> "none"]]
    /\ ret = [f \in ApiFrames |-> None]
    /\ groups = << >>
    /\ phase_units = {}

\* detect_products_in_frame(image_path, prompt) is entered.
StartDetect(f) ==
    /\ args[f].pc = "pending"
    /\ fn' = "detect_products_in_frame"
    /\ args' = [args EXCEPT ![f] = [@ EXCEPT !.pc = "running"]]
    /\ UNCHANGED << ret, groups, phase_units >>
    /\ UNCHANGED workerVars

\* The try statement's outcome for the error e of this attempt, and the end
\* of the for loop after the last attempt.
AfterError(f, e) ==
    /\ fn' = "detect_products_in_frame"
    /\ IF Handled(e) = "retry"
       THEN IF args[f].attempt + 1 < MaxAttempts
            THEN /\ args' = [args EXCEPT ![f] = [@ EXCEPT !.attempt = @ + 1, !.calls = @ + 1,
                                                          !.last_error = e]]
                 /\ UNCHANGED ret
            ELSE /\ args' = [args EXCEPT ![f] = [@ EXCEPT !.pc = "returned", !.attempt = @ + 1,
                                                          !.calls = @ + 1, !.last_error = e]]
                 /\ ret' = [ret EXCEPT ![f] = Some(<< >>)]
       ELSE IF Handled(e) = "empty"
       THEN /\ args' = [args EXCEPT ![f] = [@ EXCEPT !.pc = "returned", !.calls = @ + 1,
                                                     !.last_error = e]]
            /\ ret' = [ret EXCEPT ![f] = Some(<< >>)]
       ELSE /\ args' = [args EXCEPT ![f] = [@ EXCEPT !.pc = "raised", !.calls = @ + 1,
                                                     !.last_error = e]]
            /\ UNCHANGED ret
    /\ UNCHANGED << groups, phase_units >>
    /\ UNCHANGED workerVars

\* client.responses.create raises e.
ApiRaises(f, e) ==
    /\ args[f].pc = "running"
    /\ args[f].attempt < MaxAttempts
    /\ AfterError(f, e)

\* client.responses.create answers r.
ApiResponds(f, r) ==
    /\ args[f].pc = "running"
    /\ args[f].attempt < MaxAttempts
    /\ IF r.json /\ r.has_key /\ r.detected_products = "null"
       THEN AfterError(f, "TypeError")
       ELSE /\ fn' = "detect_products_in_frame"
            /\ args' = [args EXCEPT ![f] = [@ EXCEPT !.pc = "returned", !.calls = @ + 1,
                                                     !.last_error = "answer"]]
            /\ ret' = [ret EXCEPT ![f] = Some(ResultsOf(r))]
            /\ UNCHANGED << groups, phase_units >>
            /\ UNCHANGED workerVars

DetectNext ==
    \E f \in ApiFrames :
        \/ StartDetect(f)
        \/ \E e \in CallErrors : ApiRaises(f, e)
        \/ \E r \in ApiResponses : ApiResponds(f, r)

DetectSpec == DetectInit /\ [][DetectNext]_vars

\* A step in which the call for frame f makes an API attempt.
Attempted(f) == args'[f].calls = args[f].calls + 1

\* C25: a frame gets at most 5 API attempts; another attempt follows only a
\* rate-limit or timeout error; after 5 failed attempts, and on any other API
\* error, the call returns an empty list; no API error reaches the caller,
\* and the calls for the other frames are left as they were.
C25_BoundedRetryNoPropagation ==
    [][ \A f \in ApiFrames :
          /\ args'[f].calls <= 5
          /\ args'[f].calls # args[f].calls => Attempted(f)
          /\ (Attempted(f) /\ args[f].calls >= 1) =>
                 args[f].last_error \in { "RateLimitError", "APITimeoutError" }
          /\ (Attempted(f) /\ args'[f].last_error \in ApiErrors) =>
                 IF args'[f].last_error \in { "RateLimitError", "APITimeoutError" }
                       /\ args'[f].calls < 5
                 THEN args'[f].pc = "running" /\ ret'[f] = None
                 ELSE args'[f].pc = "returned" /\ ret'[f] = Some(<< >>)
          /\ args'[f].pc = "raised" => args'[f].last_error \notin ApiErrors
          /\ args'[f] # args[f] =>
                 \A g \in ApiFrames \ { f } : args'[g] = args[g] /\ ret'[g] = ret[g]
      ]_vars

\* One frame has come back empty after five attempts, the last one ended by
\* a rate-limit error, and another frame has returned a detection.
C25_Witness ==
    /\ \E f \in ApiFrames :
          /\ args[f].pc = "returned" /\ args[f].calls = 5
          /\ args[f].last_error = "RateLimitError" /\ ret[f] = Some(<< >>)
    /\ \E g \in ApiFrames :
          /\ args[g].pc = "returned"
          /\ ret[g] = Some(<< [product_name |-> "X", confidence |-> 90,
                               detection_reason |-> "hand_holding"] >>)

(* ======================================================================= *)
(* worker/controller/simple_worker.py: the job state machine                *)
(* ======================================================================= *)

\* The pool task of message m is queued or running.
InFlight(m) == task[m] \in NotDone

\* The subprocess of message m is running.
SubprocessRuns(m) == task[m] = "running" /\ runs[m] >= 1

MainThread(s) ==
    \/ acquire_lock(s)
    \/ LoopTest(s)
    \/ PollBegin(s)
    \/ GetQueueClientRaises(s)
    \/ NextMessage(s)
    \/ ReceiveRaises(s)
    \/ Backoff(s)
    \/ HandleMessage(s)
    \/ DeleteMessage(s)
    \/ DeleteRaises(s)
    \/ Submit(s)
    \/ Insert(s)

\* The scheduler in service with its poll loop kept running: no crash, no
\* termination signal, no second launch of the program.
LiveNext ==
    \/ \E m \in Msgs, p \in Payloads : Send(m, p)
    \/ \E m \in Msgs : VisibilityTimeout(m)
    \/ MainThread(1)
    \/ \E m \in Msgs : StartJob(m)
    \/ \E m \in Msgs, r \in Finished : FinishJob(m, r)

\* Fair scheduling: a main thread that can step does step, a queued task
\* gets a free thread of the pool, and every subprocess terminates.
LiveSpec ==
    /\ Init
    /\ [][LiveNext]_vars
    /\ WF_vars(MainThread(1))
    /\ \A m \in Msgs : WF_vars(StartJob(m))
    /\ \A m \in Msgs : WF_vars(\E r \in Finished : FinishJob(m, r))

\* C27: every job recorded in the active-job map is eventually removed from
\* it.
C27_EntryEventuallyRemoved ==
    \A m \in Msgs :
        (active_jobs[1][JobIdOfMsg(m)] = m) ~> (active_jobs[1][JobIdOfMsg(m)] # m)

\* A finished job is in the map: its future was done before the main thread
\* recorded it, so only get_active_count can remove it.
C27_Witness ==
    \E s \in Scheds, m \in Msgs :
        /\ active_jobs[s][JobIdOfMsg(m)] = m
        /\ Done(m) /\ runs[m] = 1
        /\ pc[s] \in Polling

\* Scheduler s holds the job of message m in its map with a future that is
\* not done.
DuplicateOfActive(s, m) ==
    /\ active_jobs[s][JobIdOfMsg(m)] # 0
    /\ task[active_jobs[s][JobIdOfMsg(m)]] \in NotDone

ClipPayload(vid, cid) ==
    [json |-> TRUE, job_type |-> "generate_clip", video_id |-> vid,
     clip_id |-> cid, blob_url |-> TRUE]

\* A JSON object with neither job_type nor video_id nor clip_id.
NoIdsPayload ==
    [json |-> TRUE, job_type |-> NoKey, video_id |-> NoKey,
     clip_id |-> NoKey, blob_url |-> TRUE]

\* Messages of both job types: an analysis of video "a", a clip of video
\* "a", a clip without video_id, and two messages without either id.
MixedPayloads ==
    { VideoPayload("a", TRUE), ClipPayload("a", "b"), ClipPayload(NoKey, "b"),
      ClipPayload(NoKey, NoKey), NoIdsPayload }

\* The scheduler in service, fed with messages of both job types.
DedupNext ==
    \/ \E m \in Msgs, p \in MixedPayloads : Send(m, p)
    \/ \E m \in Msgs : VisibilityTimeout(m)
    \/ MainThread(1)
    \/ \E m \in Msgs : StartJob(m)
    \/ \E m \in Msgs, r \in Finished : FinishJob(m, r)

DedupSpec == Init /\ [][DedupNext]_vars

\* The two payloads carry the same video_id, or neither carries a video_id
\* or a clip_id.
SameVideoOrNoIds(p, q) ==
    \/ p.video_id # NoKey /\ q.video_id = p.video_id
    \/ /\ p.video_id = NoKey /\ p.clip_id = NoKey
       /\ q.video_id = NoKey /\ q.clip_id = NoKey

\* C30: whatever the job types, the scheduler skips a message while a job
\* submitted from a message with the same video_id is not done, and while a
\* job of a message without ids is not done it skips every message without
\* ids; a dispatched job is recorded under its video_id when it has one,
\* else under its clip_id, else under "unknown".
C30_DedupKeyIgnoresJobType ==
    [][ \A s \in Scheds, m \in Msgs :
          /\ (/\ pc[s] = "handle" /\ msg[s] = m /\ pc'[s] \in Polling \ { "handle" }
              /\ \E k \in Msgs \ { m } :
                    /\ owner[k] = s /\ task[k] \in NotDone
                    /\ SameVideoOrNoIds(content[m], content[k])) =>
                 /\ pc'[s] = "iter" /\ skipped'[m]
                 /\ queue'[m] = queue[m] /\ task'[m] = "none"
          /\ (pc[s] = "insert" /\ msg[s] = m /\ pc'[s] = "iter") =>
                 active_jobs'[s][IF content[m].video_id # NoKey
                                 THEN content[m].video_id
                                 ELSE IF content[m].clip_id # NoKey
                                      THEN content[m].clip_id
                                      ELSE "unknown"] = m
      ]_vars

\* A clip message of video "a" was skipped while the analysis of video "a"
\* is running.
C30_Witness ==
    \E m, k \in Msgs :
        /\ content[m] = ClipPayload("a", "b") /\ skipped[m] /\ task[m] = "none"
        /\ queue[m] = "invisible"
        /\ content[k] = VideoPayload("a", TRUE) /\ task[k] = "running"

====
